---- MODULE Spec2Model ----
(***************************************************************************)
(* Model of the data-processing pipeline of AI_MBA_CLTV_RFM_Analysis       *)
(* (src/utils/dataProcessing.ts): the CSV row tokenizer, the streaming and *)
(* in-memory ingestion parsers and the cleaner.                            *)
(*                                                                         *)
(* A JavaScript string is a sequence of one-character strings; a position  *)
(* of the source (0-based) is the position + 1 here (1-based).             *)
(***************************************************************************)
EXTENDS Integers, Sequences, FiniteSets, TLC

VARIABLES
    \* tokenizer harness
    tkMode,     \* "field": round trip of one exported field; "cells": a line of well-formed fields
    field,      \* the field value handed to the export quoting rule
    cells,      \* the well-formed fields the line is written from
    row,        \* the argument of parseCsvRow
    fields,     \* the value parseCsvRow returned
    tkPc,       \* "start" -> "line" -> "tokenized"
    \* ingestion: one call of parseAndValidateCSV(file, rowLimit) and one call of
    \* parseAndValidateCSVFromText on the same text
    source,     \* what the file was written from: header, rows, line ending
    file,       \* the text of the file
    rowLimit,
    offset,     \* characters of the file the reader has delivered
    buffer,
    headers,
    data,
    rowCount,
    isHeaderProcessed,
    cancelled,  \* reader.cancel() was called
    pc,         \* "reading": inside the read loop; "returned"
    result,     \* what parseAndValidateCSV resolved to
    textResult, \* what parseAndValidateCSVFromText returned
    \* cleaning: one call of cleanData(transactions, mapping, options)
    engine,     \* what the engine's native Date parser accepts beyond ISO dates
    transactions,
    mapping,
    options,
    cleaned,    \* the value cleanData returned
    clPc,       \* "start" -> "cleaned"
    \* header repair: one run of handleFixHeaders on the text of the file
    rpSource,   \* the header cells and the lines the text was written from
    fileText,   \* await originalFile.text()
    fixedCsvText,
    repaired,   \* what parseAndValidateCSVFromText(fixedCsvText) returned
    rpPc,       \* "start" -> "fixed"
    \* quintile ranking: getQuintile(value, sortedArr)
    qValue,     \* the value to rank
    sortedArr,
    rank,       \* what getQuintile(value, sortedArr) returned
    ranks,      \* what getQuintile returned for each element of sortedArr
    qtPc,       \* "start" -> "ranked" | "rankedAll"
    \* RFM: RFMStep runs calculateRFM(cleanedTransactions), and again when the list changes
    localDay,   \* hours of the local calendar day that follows the latest invoice
    cleanedTransactions,
    rfmData,    \* what calculateRFM(cleanedTransactions) returned
    reordered,  \* the same transactions in another order
    rfmAgain,   \* what calculateRFM(reordered) returned
    rfPc,       \* "start" -> "ran" -> "reran"
    \* CLTV: CLTVStep runs calculateCLTV(rfmData, profitMargin / 100, ...)
    rfmInput,   \* the RFM records CLTVStep was given
    profitMargin,
    discountRate,
    churnRateOverride,
    cltvResults,
    cvPc,       \* "start" -> "computed"
    \* market baskets: calculateMBA(transactions, minSupport, minConfidence, minLift)
    mbaTransactions,
    minSupport,
    minConfidence,
    minLift,
    mbaResults, \* what calculateMBA returned, or that it threw
    raisedSupport,  \* a minimum support that is not lower
    mbaRaised,  \* what calculateMBA returned for raisedSupport
    mbPc,       \* "start" -> "ran" -> "raised"
    \* one call of parseCsvRow(row), step by step
    scanRow,
    scPosition, \* position, 1-based
    scanned,    \* fields
    scPc,       \* "scanning" -> "returned"
    \* UploadStep
    upload,     \* the state of the component
    rawTransactions,    \* what setRawTransactions stored
    pending,    \* the awaits in flight: the parse of a file, the text of a file
    selected,   \* the file of the file input
    upPc,       \* "mounted"
    currentStep,         \* App: the step shown
    wizardRaw,           \* App: rawTransactions
    wizardCleaned,       \* App: cleanedTransactions
    columnMapping,       \* App: columnMapping
    mbaData,             \* App: mbaData
    cleaningStep,        \* the state of the mounted CleaningStep
    mbaStep,             \* the state of the mounted MBAStep
    advances,            \* the timers of handleProcessAndNext still to fire
    runs,                \* the callbacks of handleRunAnalysis still to run
    wzPc                 \* the handler that ran last

tkVars == <<tkMode, field, cells, row, fields, tkPc>>
inVars == <<source, file, rowLimit, offset, buffer, headers, data, rowCount,
            isHeaderProcessed, cancelled, pc, result, textResult>>
clVars == <<engine, transactions, mapping, options, cleaned, clPc>>
rpVars == <<rpSource, fileText, fixedCsvText, repaired, rpPc>>
qtVars == <<qValue, sortedArr, rank, ranks, qtPc>>
rfVars == <<localDay, cleanedTransactions, rfmData, reordered, rfmAgain, rfPc>>
cvVars == <<rfmInput, profitMargin, discountRate, churnRateOverride, cltvResults, cvPc>>
mbVars == <<mbaTransactions, minSupport, minConfidence, minLift, mbaResults,
            raisedSupport, mbaRaised, mbPc>>
scVars == <<scanRow, scPosition, scanned, scPc>>
upVars == <<upload, rawTransactions, pending, selected, upPc>>
wzVars == <<currentStep, wizardRaw, wizardCleaned, columnMapping, mbaData,
           cleaningStep, mbaStep, advances, runs, wzPc>>
vars == <<tkVars, inVars, clVars, rpVars, qtVars, rfVars, cvVars, mbVars, scVars, upVars, wzVars>>
\* what each component leaves alone
tkFrame == <<inVars, clVars, rpVars, qtVars, rfVars, cvVars, mbVars, scVars, upVars, wzVars>>
inFrame == <<tkVars, clVars, rpVars, qtVars, rfVars, cvVars, mbVars, scVars, upVars, wzVars>>
clFrame == <<tkVars, inVars, rpVars, qtVars, rfVars, cvVars, mbVars, scVars, upVars, wzVars>>
rpFrame == <<tkVars, inVars, clVars, qtVars, rfVars, cvVars, mbVars, scVars, upVars, wzVars>>
qtFrame == <<tkVars, inVars, clVars, rpVars, rfVars, cvVars, mbVars, scVars, upVars, wzVars>>
rfFrame == <<tkVars, inVars, clVars, rpVars, qtVars, cvVars, mbVars, scVars, upVars, wzVars>>
cvFrame == <<tkVars, inVars, clVars, rpVars, qtVars, rfVars, mbVars, scVars, upVars, wzVars>>
mbFrame == <<tkVars, inVars, clVars, rpVars, qtVars, rfVars, cvVars, scVars, upVars, wzVars>>
scFrame == <<tkVars, inVars, clVars, rpVars, qtVars, rfVars, cvVars, mbVars, upVars, wzVars>>
upFrame == <<tkVars, inVars, clVars, rpVars, qtVars, rfVars, cvVars, mbVars, scVars, wzVars>>
wzFrame == <<tkVars, inVars, clVars, rpVars, qtVars, rfVars, cvVars, mbVars, scVars, upVars>>

-----------------------------------------------------------------------------
(* Characters and the String methods the code uses *)

QUOTE == "\""
COMMA == ","
SPACE == " "
TAB == "\t"
LF == "\n"
CR == "\r"

\* String.prototype.trim strips these (of the characters the model uses)
IsWhiteSpace(c) == c \in {SPACE, TAB, LF, CR}

RECURSIVE trimStart(_)
trimStart(s) ==
    IF s # <<>> /\ IsWhiteSpace(Head(s)) THEN trimStart(Tail(s)) ELSE s

RECURSIVE trimEnd(_)
trimEnd(s) ==
    IF s # <<>> /\ IsWhiteSpace(s[Len(s)]) THEN trimEnd(SubSeq(s, 1, Len(s) - 1)) ELSE s

trim(s) == trimEnd(trimStart(s))

includes(s, c) == \E i \in 1..Len(s) : s[i] = c

endsWith(s, c) == s # <<>> /\ s[Len(s)] = c

\* row.indexOf(',', position), with the code's "-1 becomes row.length"
RECURSIVE nextCommaFrom(_, _)
nextCommaFrom(line, p) ==
    IF p > Len(line) THEN Len(line) + 1
    ELSE IF line[p] = COMMA THEN p
    ELSE nextCommaFrom(line, p + 1)

\* Array.prototype.join
RECURSIVE join(_, _)
join(ss, sep) ==
    IF ss = <<>> THEN <<>>
    ELSE IF Len(ss) = 1 THEN ss[1]
    ELSE ss[1] \o sep \o join(Tail(ss), sep)

\* all sequences over S of length 0..n
RECURSIVE SeqsUpTo(_, _)
SeqsUpTo(S, n) ==
    IF n = 0 THEN {<<>>}
    ELSE LET shorter == SeqsUpTo(S, n - 1)
         IN  shorter \cup {Append(s, c) : s \in {t \in shorter : Len(t) = n - 1}, c \in S}

-----------------------------------------------------------------------------
(* parseCsvRow *)

\* "Trim leading whitespace for the next field": only space and tab; row[position]
\* past the end is undefined and ends the loop
RECURSIVE skipLeading(_, _)
skipLeading(line, p) ==
    IF p <= Len(line) /\ line[p] \in {SPACE, TAB} THEN skipLeading(line, p + 1) ELSE p

\* the inner loop "while (inQuotes && position < row.length)", entered after the
\* opening quote
RECURSIVE quotedField(_, _, _)
quotedField(line, p, value) ==
    IF p > Len(line) THEN [value |-> value, position |-> p]
    ELSE IF line[p] = QUOTE
         THEN IF p + 1 <= Len(line) /\ line[p + 1] = QUOTE
              THEN quotedField(line, p + 2, Append(value, QUOTE))
              ELSE [value |-> value, position |-> p + 1]
         ELSE quotedField(line, p + 1, Append(value, line[p]))

unquotedField(line, p) ==
    LET nextComma == nextCommaFrom(line, p)
    IN  [value |-> trim(SubSeq(line, p, nextComma - 1)), position |-> nextComma]

\* one iteration of the outer loop up to fields.push(value)
nextField(line, p) ==
    LET q == skipLeading(line, p)
    IN  IF q <= Len(line) /\ line[q] = QUOTE
        THEN quotedField(line, q + 1, <<>>)
        ELSE unquotedField(line, q)

pastComma_Stays(line, p) == p

\* "Move past the comma, if it exists"
pastComma(line, p) == IF p <= Len(line) /\ line[p] = COMMA THEN p + 1 ELSE p

RECURSIVE rowLoop(_, _, _)
rowLoop(line, p, acc) ==
    IF p > Len(line) THEN acc
    ELSE LET f == nextField(line, p)
         IN  rowLoop(line, pastComma(line, f.position), Append(acc, f.value))

\* "Handle trailing comma (empty field at the end)"
trailingComma(line, acc) ==
    IF endsWith(trim(line), COMMA) THEN Append(acc, <<>>) ELSE acc

parseCsvRow(line) == trailingComma(line, rowLoop(line, 1, <<>>))

-----------------------------------------------------------------------------
(* the export quoting rule of exportToCsv (and of fixEmptyHeadersInCsvText) *)

RECURSIVE doubleQuotes(_)
doubleQuotes(s) ==
    IF s = <<>> THEN <<>>
    ELSE (IF Head(s) = QUOTE THEN <<QUOTE, QUOTE>> ELSE <<Head(s)>>) \o doubleQuotes(Tail(s))

needsQuoting(value) ==
    includes(value, COMMA) \/ includes(value, QUOTE) \/ includes(value, LF)

quoteField_Undoubled(value) ==
    IF needsQuoting(value) THEN <<QUOTE>> \o value \o <<QUOTE>> ELSE value

quoteField(value) ==
    IF needsQuoting(value) THEN <<QUOTE>> \o doubleQuotes(value) \o <<QUOTE>> ELSE value

-----------------------------------------------------------------------------
(* CSVValidationResult and the error messages                               *)
(*                                                                          *)
(* A result is a record with exactly the keys the return statement writes;  *)
(* an optional key that is not written is absent from the record.  An error *)
(* message is the record of its fixed text (kind) and of what the template  *)
(* literal interpolates into it.                                            *)

MIN_COLUMNS == 4
FATAL_MISMATCH_ROWS == 10

Message(kind, expected, found, names) ==
    [kind |-> kind, expected |-> expected, found |-> found, names |-> names]

tooFewColumnsError(n)       == Message("tooFewColumns", MIN_COLUMNS, n, <<>>)
emptyHeadersError           == Message("emptyHeaders", 0, 0, <<>>)
duplicateHeadersError_Unnamed(dups) == Message("duplicateHeaders", 0, 0, <<>>)
duplicateHeadersError(dups) == Message("duplicateHeaders", 0, 0, join(dups, <<COMMA, SPACE>>))
columnCountError(exp, n)    == Message("columnCount", exp, n, <<>>)
emptyFileError              == Message("emptyOrUnparsed", 0, 0, <<>>)
headerOnlyError             == Message("emptyOrHeaderOnly", 0, 0, <<>>)
streamingError              == Message("streaming", 0, 0, <<>>)

HeaderErrorKinds == {"tooFewColumns", "emptyHeaders", "duplicateHeaders"}

\* obj[header] = values[index] || '' for every header, in order: a later header of
\* the same name overwrites the earlier one
toRecord(hdrs, values) ==
    [h \in {hdrs[i] : i \in 1..Len(hdrs)} |->
        values[CHOOSE i \in 1..Len(hdrs) :
                  /\ hdrs[i] = h
                  /\ \A j \in 1..Len(hdrs) : hdrs[j] = h => j <= i]]

\* the first position from p on that holds one of the characters, 0 when there is none
RECURSIVE indexOfAny(_, _, _)
indexOfAny(text, chars, p) ==
    IF p > Len(text) THEN 0
    ELSE IF text[p] \in chars THEN p
    ELSE indexOfAny(text, chars, p + 1)

isCRLF_AnyCR(text, i) == text[i] = CR

isCRLF(text, i) == text[i] = CR /\ i < Len(text) /\ text[i + 1] = LF

\* text.split(/\r\n|\n|\r/): the pieces between line terminators (always at least
\* one); at a \r the alternative \r\n is tried first
RECURSIVE splitLines(_)
splitLines(text) ==
    LET i == indexOfAny(text, {CR, LF}, 1)
    IN  IF i = 0 THEN <<text>>
        ELSE <<SubSeq(text, 1, i - 1)>>
                 \o splitLines(SubSeq(text, IF isCRLF(text, i) THEN i + 2 ELSE i + 1, Len(text)))

\* text.replace(/\r\n/g, '\n')
RECURSIVE replaceCRLF(_)
replaceCRLF(text) ==
    LET i == indexOfAny(text, {CR}, 1)
    IN  IF i = 0 THEN text
        ELSE IF isCRLF(text, i)
        THEN SubSeq(text, 1, i - 1) \o <<LF>> \o replaceCRLF(SubSeq(text, i + 2, Len(text)))
        ELSE SubSeq(text, 1, i) \o replaceCRLF(SubSeq(text, i + 1, Len(text)))

\* text.split('\n')
RECURSIVE splitLF(_)
splitLF(text) ==
    LET i == indexOfAny(text, {LF}, 1)
    IN  IF i = 0 THEN <<text>>
        ELSE <<SubSeq(text, 1, i - 1)>> \o splitLF(SubSeq(text, i + 1, Len(text)))

\* lines.filter(line => line.trim() !== '')
nonBlank(lines) == SelectSeq(lines, LAMBDA l : trim(l) # <<>>)

-----------------------------------------------------------------------------
(* parseAndValidateCSV: the streaming parser                                *)

\* headers.filter(h => headerSet.size === headerSet.add(h.trim()).size)
RECURSIVE streamDuplicates(_, _)
streamDuplicates(hdrs, headerSet) ==
    IF hdrs = <<>> THEN <<>>
    ELSE LET h == Head(hdrs)
         IN  (IF trim(h) \in headerSet THEN <<h>> ELSE <<>>)
                 \o streamDuplicates(Tail(hdrs), headerSet \cup {trim(h)})

\* the local variables of one call that live across reads; ret is the value of a
\* return statement that has run (returned = TRUE), cancelled is reader.cancel()
NotReturned == [data |-> <<>>, errors |-> <<>>, pending |-> TRUE]

ParserStart ==
    [headers |-> <<>>, data |-> <<>>, rowCount |-> 0, isHeaderProcessed |-> FALSE,
     returned |-> FALSE, ret |-> NotReturned, cancelled |-> FALSE]

return(st, value) == [st EXCEPT !.returned = TRUE, !.ret = value]

\* "Header Validation" of the first non-blank line: the first failed test returns
validateHeader(st, line) ==
    LET hdrs == parseCsvRow(line)
        duplicateHeaders == streamDuplicates(hdrs, {})
        seen == [st EXCEPT !.headers = hdrs]
    IN  IF Len(hdrs) < MIN_COLUMNS
        THEN return(seen, [data |-> <<>>, errors |-> <<tooFewColumnsError(Len(hdrs))>>])
        ELSE IF \E i \in 1..Len(hdrs) : trim(hdrs[i]) = <<>>
        THEN return(seen, [data |-> <<>>, errors |-> <<emptyHeadersError>>,
                           hasEmptyHeaders |-> TRUE])
        ELSE IF Len(duplicateHeaders) > 0
        THEN return(seen, [data |-> <<>>,
                           errors |-> <<duplicateHeadersError(duplicateHeaders)>>])
        ELSE [seen EXCEPT !.isHeaderProcessed = TRUE]

checkLimit_OffByOne(st, limit) ==
    IF st.rowCount > limit
    THEN return([st EXCEPT !.cancelled = TRUE],
                [data |-> st.data, errors |-> <<>>, truncated |-> TRUE,
                 rowCount |-> st.rowCount])
    ELSE st

\* "if (rowCount >= rowLimit)": cancel the reader and return what was read
checkLimit(st, limit) ==
    IF st.rowCount >= limit
    THEN return([st EXCEPT !.cancelled = TRUE],
                [data |-> st.data, errors |-> <<>>, truncated |-> TRUE,
                 rowCount |-> st.rowCount])
    ELSE st

\* a line after the header, inside the read loop
dataLine(st, line, limit) ==
    LET values == parseCsvRow(line)
    IN  IF Len(values) = Len(st.headers)
        THEN checkLimit([st EXCEPT !.data = Append(@, toRecord(st.headers, values)),
                                   !.rowCount = @ + 1], limit)
        ELSE IF st.rowCount < FATAL_MISMATCH_ROWS
        THEN return(st, [data |-> <<>>,
                         errors |-> <<columnCountError(Len(st.headers), Len(values))>>])
        ELSE checkLimit(st, limit)

\* the body of "for (const line of lines)"
processLine(st, line, limit) ==
    IF trim(line) = <<>> THEN st
    ELSE IF ~st.isHeaderProcessed THEN validateHeader(st, line)
    ELSE dataLine(st, line, limit)

RECURSIVE processLines(_, _, _)
processLines(st, lines, limit) ==
    IF lines = <<>> \/ st.returned THEN st
    ELSE processLines(processLine(st, Head(lines), limit), Tail(lines), limit)

\* "Process any remaining buffer content (the last line)" and the final returns
lastLine(st, buf, limit) ==
    IF trim(buf) # <<>> /\ st.isHeaderProcessed /\ st.rowCount < limit
    THEN LET values == parseCsvRow(buf)
         IN  IF Len(values) = Len(st.headers)
             THEN [st EXCEPT !.data = Append(@, toRecord(st.headers, values))]
             ELSE st
    ELSE st

endOfStream(st, buf, limit) ==
    LET end == lastLine(st, buf, limit)
    IN  IF ~end.isHeaderProcessed /\ Len(end.data) = 0
        THEN return(end, [data |-> <<>>, errors |-> <<emptyFileError>>])
        ELSE return(end, [data |-> end.data, errors |-> <<>>, rowCount |-> Len(end.data)])

streamFailure_KeepsRows(st) == return(st, [data |-> st.data, errors |-> <<streamingError>>])

\* the catch block
streamFailure(st) == return(st, [data |-> <<>>, errors |-> <<streamingError>>])

-----------------------------------------------------------------------------
(* parseAndValidateCSVFromText: the in-memory parser                        *)

\* the distinct trimmed names that occur again, in the order they are found
RECURSIVE textDuplicates(_, _, _)
textDuplicates(hdrs, headerSet, duplicateHeaders) ==
    IF hdrs = <<>> THEN duplicateHeaders
    ELSE LET trimmedHeader == trim(Head(hdrs))
         IN  IF trimmedHeader \in headerSet
             THEN textDuplicates(Tail(hdrs), headerSet,
                     IF \E i \in 1..Len(duplicateHeaders) : duplicateHeaders[i] = trimmedHeader
                     THEN duplicateHeaders
                     ELSE Append(duplicateHeaders, trimmedHeader))
             ELSE textDuplicates(Tail(hdrs), headerSet \cup {trimmedHeader}, duplicateHeaders)

textHeaderErrors(hdrs) ==
    LET hasEmptyHeader == \E i \in 1..Len(hdrs) : trim(hdrs[i]) = <<>>
        duplicateHeaders == textDuplicates(hdrs, {}, <<>>)
    IN  (IF Len(hdrs) < MIN_COLUMNS THEN <<tooFewColumnsError(Len(hdrs))>> ELSE <<>>)
        \o (IF hasEmptyHeader THEN <<emptyHeadersError>> ELSE <<>>)
        \o (IF Len(duplicateHeaders) > 0 THEN <<duplicateHeadersError(duplicateHeaders)>>
            ELSE <<>>)

\* the loop over lines[1..]: a line of another length is left out
RECURSIVE textRows(_, _)
textRows(hdrs, lines) ==
    IF lines = <<>> THEN <<>>
    ELSE LET values == parseCsvRow(Head(lines))
         IN  (IF Len(values) = Len(hdrs) THEN <<toRecord(hdrs, values)>> ELSE <<>>)
                 \o textRows(hdrs, Tail(lines))

parseAndValidateCSVFromText(csvText) ==
    LET lines == nonBlank(splitLF(replaceCRLF(trim(csvText))))
    IN  IF Len(lines) < 2
        THEN [data |-> <<>>, errors |-> <<headerOnlyError>>]
        ELSE LET hdrs == parseCsvRow(lines[1])
                 errors == textHeaderErrors(hdrs)
                 rows == textRows(hdrs, Tail(lines))
             IN  IF Len(errors) > 0
                 THEN [data |-> <<>>, errors |-> errors,
                       hasEmptyHeaders |-> \E i \in 1..Len(hdrs) : trim(hdrs[i]) = <<>>]
                 ELSE [data |-> rows, errors |-> errors, hasEmptyHeaders |-> FALSE,
                       rowCount |-> Len(rows)]

-----------------------------------------------------------------------------
(* Numbers and dates of the cleaner                                         *)
(*                                                                          *)
(* A number is NaN or an integer (the cells of the model hold no decimal    *)
(* point or exponent); a Date is its UTC calendar day or null.              *)

NaN == [nan |-> TRUE, v |-> 0]
Num(n) == [nan |-> FALSE, v |-> n]
times(a, b) == IF a.nan \/ b.nan THEN NaN ELSE Num(a.v * b.v)
greaterThanZero(a) == ~a.nan /\ a.v > 0

Digits == <<"0", "1", "2", "3", "4", "5", "6", "7", "8", "9">>
isDigit(c) == \E i \in 1..10 : Digits[i] = c
digitValue(c) == (CHOOSE i \in 1..10 : Digits[i] = c) - 1

\* the number of digits at p, at most max
RECURSIVE digitRun(_, _, _)
digitRun(s, p, max) ==
    IF max = 0 \/ p > Len(s) \/ ~isDigit(s[p]) THEN 0 ELSE 1 + digitRun(s, p + 1, max - 1)

RECURSIVE decimalValue(_)
decimalValue(ds) ==
    IF ds = <<>> THEN 0 ELSE 10 * decimalValue(SubSeq(ds, 1, Len(ds) - 1)) + digitValue(ds[Len(ds)])

\* parseInt of a run of digits
intAt(s, p, n) == decimalValue(SubSeq(s, p, p + n - 1))

\* parseFloat: leading white space, a sign, the longest run of digits; NaN without one
parseFloat(s) ==
    LET t == trimStart(s)
        signed == t # <<>> /\ t[1] \in {"-", "+"}
        p == IF signed THEN 2 ELSE 1
        n == digitRun(t, p, Len(t))
    IN  IF n = 0 THEN NaN
        ELSE Num((IF signed /\ t[1] = "-" THEN -1 ELSE 1) * intAt(t, p, n))

null == [valid |-> FALSE, year |-> 0, month |-> 0, day |-> 0]
Day(y, m, d) == [valid |-> TRUE, year |-> y, month |-> m, day |-> d]

isLeap(y) == (y % 4 = 0 /\ y % 100 # 0) \/ y % 400 = 0
daysIn(y, m) ==
    IF m = 2 THEN (IF isLeap(y) THEN 29 ELSE 28)
    ELSE IF m \in {4, 6, 9, 11} THEN 30 ELSE 31

\* days past the end of a month carry into the next months
RECURSIVE carryDays(_, _, _)
carryDays(y, m, d) ==
    IF d <= daysIn(y, m) THEN Day(y, m, d)
    ELSE IF m = 12 THEN carryDays(y + 1, 1, d - daysIn(y, m))
    ELSE carryDays(y, m + 1, d - daysIn(y, m))

\* new Date(Date.UTC(year, month - 1, day)): a year below 100 counts from 1900,
\* month 0 is December of the year before, day 0 the last day of the month before
dateUTC(year, month, day) ==
    LET y0 == IF year < 100 THEN 1900 + year ELSE year
        y1 == IF month = 0 THEN y0 - 1 ELSE y0 + ((month - 1) \div 12)
        m1 == IF month = 0 THEN 12 ELSE ((month - 1) % 12) + 1
    IN  IF day = 0
        THEN (IF m1 = 1 THEN Day(y1 - 1, 12, 31) ELSE Day(y1, m1 - 1, daysIn(y1, m1 - 1)))
        ELSE carryDays(y1, m1, day)

isSeparator(c) == c \in {"/", "-"}

\* the match of /^(\d{1,2})[/-](\d{1,2})[/-](\d{4})/ (the optional time of day is
\* not in the cells of the model)
commonFormatMatch(s) ==
    LET n1 == digitRun(s, 1, 2)
        p2 == n1 + 2
        n2 == digitRun(s, p2, 2)
        p3 == p2 + n2 + 1
        n3 == digitRun(s, p3, 4)
    IN  IF /\ n1 >= 1 /\ Len(s) >= n1 + 1 /\ isSeparator(s[n1 + 1])
           /\ n2 >= 1 /\ Len(s) >= p2 + n2 /\ isSeparator(s[p2 + n2])
           /\ n3 = 4
        THEN [matched |-> TRUE, month |-> intAt(s, 1, n1), day |-> intAt(s, p2, n2),
              year |-> intAt(s, p3, 4)]
        ELSE [matched |-> FALSE, month |-> 0, day |-> 0, year |-> 0]

\* new Date(dateString): the ISO format YYYY-MM-DD is parsed by every engine; any
\* other text is parsed as the engine likes.  "iso": only ISO dates; "legacy": also
\* M/D/YYYY with a month 1..12 and a day 1..31, days past the month's end carried
nativeDate(s) ==
    LET iso == /\ Len(s) = 10 /\ digitRun(s, 1, 4) = 4 /\ s[5] = "-"
               /\ digitRun(s, 6, 2) = 2 /\ s[8] = "-" /\ digitRun(s, 9, 2) = 2
        m == commonFormatMatch(s)
    IN  IF iso
        THEN (IF /\ intAt(s, 6, 2) \in 1..12
                 /\ intAt(s, 9, 2) \in 1..daysIn(intAt(s, 1, 4), intAt(s, 6, 2))
              THEN Day(intAt(s, 1, 4), intAt(s, 6, 2), intAt(s, 9, 2))
              ELSE null)
        ELSE IF /\ engine = "legacy" /\ m.matched /\ Len(s) = Len(trim(s))
                /\ m.month \in 1..12 /\ m.day \in 1..31 /\ m.year >= 100
        THEN carryDays(m.year, m.month, m.day)
        ELSE null

parseDateString(dateString) ==
    IF dateString = <<>> THEN null
    ELSE IF nativeDate(dateString).valid THEN nativeDate(dateString)
    ELSE LET m == commonFormatMatch(dateString)
             date == dateUTC(m.year, m.month, m.day)
         IN  IF m.matched /\ date.year = m.year /\ date.month = m.month /\ date.day = m.day
             THEN date
             ELSE null

-----------------------------------------------------------------------------
(* cleanData                                                                *)

Columns == <<"id", "inv", "date", "qty", "price", "desc">>

\* JSON.stringify(t): the keys, in the order of the header, with their values
stringify(t) == [i \in 1..Len(Columns) |-> <<Columns[i], t[Columns[i]]>>]

\* a non-empty string is truthy
truthy(s) == s # <<>>

removeDuplicates_KeepsAll(ts, uniqueTransactionKeys) == ts

\* cleaned.filter(...) of removeDuplicateTransactions: the first of equal keys stays
RECURSIVE removeDuplicates(_, _)
removeDuplicates(ts, uniqueTransactionKeys) ==
    IF ts = <<>> THEN <<>>
    ELSE LET key == stringify(Head(ts))
         IN  IF key \in uniqueTransactionKeys
             THEN removeDuplicates(Tail(ts), uniqueTransactionKeys)
             ELSE <<Head(ts)>> \o removeDuplicates(Tail(ts), uniqueTransactionKeys \cup {key})

applyOptions(ts, map, opts) ==
    LET deduped == IF opts.removeDuplicateTransactions THEN removeDuplicates(ts, {}) ELSE ts
        withId == IF opts.removeNullCustomerId
                  THEN SelectSeq(deduped, LAMBDA t : truthy(t[map.customerId]))
                  ELSE deduped
        positive == IF opts.removeNegativeQuantity
                    THEN SelectSeq(withId, LAMBDA t : greaterThanZero(parseFloat(t[map.quantity])))
                    ELSE withId
    IN  IF opts.handleMissingUnitPrice
        THEN SelectSeq(positive, LAMBDA t : greaterThanZero(parseFloat(t[map.unitPrice])))
        ELSE positive

\* the object the map callback builds: the raw fields and the canonical ones
canonical(t, map) ==
    [raw |-> t,
     CustomerID |-> t[map.customerId],
     InvoiceID |-> t[map.invoiceId],
     Description |-> t[map.description],
     InvoiceDate |-> parseDateString(t[map.invoiceDate]),
     Quantity |-> parseFloat(t[map.quantity]),
     UnitPrice |-> parseFloat(t[map.unitPrice]),
     TotalPrice |-> times(parseFloat(t[map.quantity]), parseFloat(t[map.unitPrice]))]

isComplete_NoPriceTest(c) ==
    /\ c.InvoiceDate.valid
    /\ ~c.TotalPrice.nan
    /\ truthy(c.InvoiceID) /\ truthy(c.Description)

\* the predicate of the final filter
isComplete(c) ==
    /\ c.InvoiceDate.valid
    /\ ~c.TotalPrice.nan /\ c.TotalPrice.v > 0
    /\ truthy(c.InvoiceID) /\ truthy(c.Description)

cleanData(ts, map, opts) ==
    LET kept == applyOptions(ts, map, opts)
    IN  SelectSeq([i \in 1..Len(kept) |-> canonical(kept[i], map)], isComplete)

-----------------------------------------------------------------------------
(* Cleaning harness: the raw records, the mappings and the options          *)

MaxRecords == 2

C_ID      == <<"C", "1">>
C_INV     == <<"I", "1">>
C_DESC    == <<"m", "u", "g">>
D_ISO     == <<"2", "0", "2", "3", "-", "0", "1", "-", "0", "5">>
D_COMMON  == <<"1", "/", "5", "/", "2", "0", "2", "3">>
D_PAST    == <<"2", "/", "3", "0", "/", "2", "0", "2", "3">>
D_MONTH13 == <<"1", "3", "/", "5", "/", "2", "0", "2", "3">>
Q_TWO     == <<"2">>
Q_MINUS   == <<"-", "1">>
Q_TEXT    == <<"x">>
P_THREE   == <<"3">>
P_MINUS   == <<"-", "2">>
P_ZERO    == <<"0">>

rawRecord(id, inv, date, qty, price, desc) ==
    [c \in {Columns[i] : i \in 1..Len(Columns)} |->
        CASE c = "id" -> id [] c = "inv" -> inv [] c = "date" -> date
          [] c = "qty" -> qty [] c = "price" -> price [] c = "desc" -> desc]

\* records that differ in their numbers, in their date, or in the text cell that is
\* empty
RawRecords ==
    { rawRecord(C_ID, C_INV, D_ISO, q, p, C_DESC) :
          q \in {Q_TWO, Q_MINUS, Q_TEXT}, p \in {P_THREE, P_MINUS, P_ZERO} }
    \cup
    { rawRecord(C_ID, C_INV, d, Q_TWO, P_THREE, C_DESC) :
          d \in {D_COMMON, D_PAST, D_MONTH13, <<>>} }
    \cup
    { rawRecord(t[1], t[2], D_ISO, Q_TWO, P_THREE, t[3]) :
          t \in { <<<<>>, C_INV, C_DESC>>, <<C_ID, <<>>, C_DESC>>, <<C_ID, C_INV, <<>> >> } }

\* longer lists of two records, where a record can come back after another one
R_PLAIN == rawRecord(C_ID, C_INV, D_ISO, Q_TWO, P_THREE, C_DESC)
R_MINUS == rawRecord(C_ID, C_INV, D_ISO, Q_MINUS, P_MINUS, C_DESC)
RepeatingLists ==
    {ts \in SeqsUpTo({R_PLAIN, R_MINUS}, MaxRecords + 1) : Len(ts) = MaxRecords + 1}

Identity ==
    [customerId |-> "id", invoiceId |-> "inv", invoiceDate |-> "date",
     quantity |-> "qty", unitPrice |-> "price", description |-> "desc"]
Mappings ==
    { Identity,
      [Identity EXCEPT !.unitPrice = "qty"],
      [Identity EXCEPT !.description = "id", !.customerId = "desc"] }

Options ==
    [removeNullCustomerId : BOOLEAN, removeNegativeQuantity : BOOLEAN,
     removeDuplicateTransactions : BOOLEAN, handleMissingUnitPrice : BOOLEAN]

CleanInit ==
    /\ engine \in {"iso", "legacy"}
    /\ transactions \in SeqsUpTo(RawRecords, MaxRecords) \cup RepeatingLists
    /\ mapping = Identity
    /\ options = [removeNullCustomerId |-> FALSE, removeNegativeQuantity |-> FALSE,
                  removeDuplicateTransactions |-> FALSE, handleMissingUnitPrice |-> FALSE]
    /\ cleaned = <<>>
    /\ clPc = "start"

Clean ==
    /\ clPc = "start"
    /\ \E map \in Mappings, opts \in Options :
          /\ mapping' = map
          /\ options' = opts
          /\ cleaned' = cleanData(transactions, map, opts)
    /\ clPc' = "cleaned"
    /\ UNCHANGED <<engine, transactions>>
    /\ UNCHANGED clFrame

CleanNext == Clean

CleanIdle ==
    /\ engine = "idle" /\ transactions = <<>> /\ mapping = Identity
    /\ options = <<>> /\ cleaned = <<>> /\ clPc = "idle"

-----------------------------------------------------------------------------
(* Ingestion harness: the files and the reader                              *)

MaxGood == 3
MaxTail == 2
MaxRowLimit == 3
MaxChunk == 2
\* the limit UploadStep passes
ROW_LIMIT == 100000

Cell(c) == <<c>>
H_OK              == <<Cell("A"), Cell("B"), Cell("C"), Cell("D")>>
H_EMPTY           == <<Cell("A"), Cell("B"), <<>>, Cell("D")>>
H_DUP             == <<Cell("A"), Cell("B"), Cell("A"), Cell("D")>>
H_EMPTY_DUP       == <<Cell("A"), <<>>, Cell("A"), Cell("D")>>
H_SHORT_DUP       == <<Cell("A"), Cell("B"), Cell("A")>>
H_SHORT_EMPTY_DUP == <<Cell("A"), <<>>, Cell("A")>>
DefectiveHeaders  == {H_EMPTY, H_DUP, H_EMPTY_DUP, H_SHORT_DUP, H_SHORT_EMPTY_DUP}

ROW_1     == <<Cell("1"), Cell("2"), Cell("3"), Cell("4")>>
ROW_2     == <<Cell("5"), Cell("6"), Cell("7"), Cell("8")>>
ROW_SHORT == <<Cell("1"), Cell("2"), Cell("3")>>
BLANK     == <<>>
RowKinds  == {ROW_1, ROW_2, ROW_SHORT, BLANK}
\* a row whose second field is quoted and holds a comma
ROW_QUOTED == <<Cell("1"), <<QUOTE, "2", COMMA, "3", QUOTE>>, Cell("3"), Cell("4")>>

LineEndings == {<<LF>>, <<CR, LF>>, <<CR>>}

\* good: the number of valid rows (ROW_1, ROW_2, ROW_1, ...) that follow the header;
\* tail: the lines after them; final: the last line ends with a line ending
goodRows(n) == [i \in 1..n |-> IF i % 2 = 1 THEN ROW_1 ELSE ROW_2]

\* files that differ in their rows; files that differ in their line endings; files
\* with a defective header; files with a quoted field
Sources ==
    [header : {H_OK}, eol : {<<LF>>}, final : BOOLEAN,
     good : (0..MaxGood) \cup {FATAL_MISMATCH_ROWS}, tail : SeqsUpTo(RowKinds, MaxTail)]
    \cup
    [header : {H_OK}, eol : LineEndings, final : BOOLEAN,
     good : {0, 1}, tail : SeqsUpTo(RowKinds, 1)]
    \cup
    [header : DefectiveHeaders, eol : LineEndings, final : BOOLEAN,
     good : {0}, tail : SeqsUpTo({ROW_1}, 1)]
    \cup
    [header : {H_OK}, eol : {<<CR, LF>>}, final : BOOLEAN,
     good : {0, 1}, tail : {<<ROW_QUOTED>>}]

rowsOf(src) == goodRows(src.good) \o src.tail

textOf(src) ==
    LET all == <<src.header>> \o rowsOf(src)
        lines == [i \in 1..Len(all) |-> join(all[i], <<COMMA>>)]
    IN  join(lines, src.eol) \o (IF src.final THEN src.eol ELSE <<>>)

IngestInit ==
    /\ source \in Sources
    /\ file = textOf(source)
    /\ rowLimit \in (1..MaxRowLimit) \cup {ROW_LIMIT}
    /\ offset = 0
    /\ buffer = <<>>
    /\ headers = ParserStart.headers
    /\ data = ParserStart.data
    /\ rowCount = ParserStart.rowCount
    /\ isHeaderProcessed = ParserStart.isHeaderProcessed
    /\ cancelled = FALSE
    /\ pc = "reading"
    /\ result = NotReturned
    /\ textResult = NotReturned

locals ==
    [headers |-> headers, data |-> data, rowCount |-> rowCount,
     isHeaderProcessed |-> isHeaderProcessed, returned |-> FALSE, ret |-> NotReturned,
     cancelled |-> cancelled]

store(after) ==
    LET st == after
    IN
    /\ headers' = st.headers
    /\ data' = st.data
    /\ rowCount' = st.rowCount
    /\ isHeaderProcessed' = st.isHeaderProcessed
    /\ cancelled' = st.cancelled
    /\ pc' = IF st.returned THEN "returned" ELSE "reading"
    /\ result' = st.ret

\* a read delivers a few characters or all that is left of the file
ChunkSizes(left) == {k \in 1..left : k <= MaxChunk \/ k = left}

\* reader.read() resolves with the next chunk; the lines it completes are processed
ReadChunk ==
    /\ pc = "reading"
    /\ offset < Len(file)
    /\ \E k \in ChunkSizes(Len(file) - offset) :
          LET value == SubSeq(file, offset + 1, offset + k)
              lines == splitLines(buffer \o value)
          IN  /\ offset' = offset + k
              /\ buffer' = lines[Len(lines)]
              /\ store(processLines(locals, SubSeq(lines, 1, Len(lines) - 1), rowLimit))
    /\ UNCHANGED <<source, file, rowLimit, textResult>>
    /\ UNCHANGED inFrame

\* reader.read() resolves with done: the loop ends and the buffer is the last line
ReadDone ==
    /\ pc = "reading"
    /\ offset = Len(file)
    /\ store(endOfStream(locals, buffer, rowLimit))
    /\ UNCHANGED <<source, file, rowLimit, offset, buffer, textResult>>
    /\ UNCHANGED inFrame

\* reader.read() rejects: the catch block returns
ReadFails ==
    /\ pc = "reading"
    /\ store(streamFailure(locals))
    /\ UNCHANGED <<source, file, rowLimit, offset, buffer, textResult>>
    /\ UNCHANGED inFrame

\* the same text handed to the in-memory parser
ParseText ==
    /\ pc = "returned"
    /\ textResult = NotReturned
    /\ textResult' = parseAndValidateCSVFromText(file)
    /\ UNCHANGED <<source, file, rowLimit, offset, buffer, headers, data,
                   rowCount, isHeaderProcessed, cancelled, pc, result>>
    /\ UNCHANGED inFrame

IngestNext == ReadChunk \/ ReadDone \/ ReadFails \/ ParseText

-----------------------------------------------------------------------------
(* Tokenizer harness: inputs *)

MaxFieldLen == 3
MaxCells == 3

FieldChars == {"a", COMMA, QUOTE, LF, SPACE}
Fields == SeqsUpTo(FieldChars, MaxFieldLen)

\* a well-formed field: an unquoted body without quotes (and without commas), or a
\* properly closed quoted body; optionally preceded by a space and followed by a tab
CellBodies ==
    { <<>>, <<"a">>, <<QUOTE, "a", QUOTE>>, <<QUOTE, COMMA, QUOTE>> }
Cells == [lead : {<<>>, <<SPACE>>}, body : CellBodies, trail : {<<>>, <<TAB>>}]

cellText(c) == c.lead \o c.body \o c.trail

lineOf(cs) == join([i \in 1..Len(cs) |-> cellText(cs[i])], <<COMMA>>)

CellLists == SeqsUpTo(Cells, MaxCells) \ {<<>>}

TokIdle ==
    /\ tkMode = "idle" /\ field = <<>> /\ cells = <<>> /\ row = <<>> /\ fields = <<>>
    /\ tkPc = "idle"

TokInit ==
    /\ tkPc = "start"
    /\ row = <<>>
    /\ fields = <<>>
    /\ \/ tkMode = "field" /\ field \in Fields /\ cells = <<>>
       \/ tkMode = "cells" /\ cells \in CellLists /\ field = <<>>

\* exportToCsv writes the field with the quoting rule
Serialize ==
    /\ tkPc = "start" /\ tkMode = "field"
    /\ row' = quoteField(field)
    /\ tkPc' = "line"
    /\ UNCHANGED <<tkMode, field, cells, fields>>
    /\ UNCHANGED tkFrame

\* a line written from well-formed fields separated by commas
WriteLine ==
    /\ tkPc = "start" /\ tkMode = "cells"
    /\ row' = lineOf(cells)
    /\ tkPc' = "line"
    /\ UNCHANGED <<tkMode, field, cells, fields>>
    /\ UNCHANGED tkFrame

Tokenize ==
    /\ tkPc = "line"
    /\ fields' = parseCsvRow(row)
    /\ tkPc' = "tokenized"
    /\ UNCHANGED <<tkMode, field, cells, row>>
    /\ UNCHANGED tkFrame

TokNext == Serialize \/ WriteLine \/ Tokenize

-----------------------------------------------------------------------------
(* fixEmptyHeadersInCsvText and the handler that runs it                    *)

\* String(n) of a positive integer
RECURSIVE toDecimal(_)
toDecimal(n) ==
    IF n < 10 THEN <<Digits[n + 1]>> ELSE toDecimal(n \div 10) \o <<Digits[(n % 10) + 1]>>

\* `Column_${index + 1}`, index + 1 being i
placeholder(i) == <<"C", "o", "l", "u", "m", "n", "_">> \o toDecimal(i)

\* headers.map((header, index) => (header || '').trim() === '' ? ... : header)
fixedHeaders(hdrs) ==
    [i \in 1..Len(hdrs) |-> IF trim(hdrs[i]) = <<>> THEN placeholder(i) ELSE hdrs[i]]

fixEmptyHeadersInCsvText(csvText) ==
    LET lines == splitLF(replaceCRLF(trim(csvText)))
        fixed == fixedHeaders(parseCsvRow(lines[1]))
        newHeaderLine == join([i \in 1..Len(fixed) |-> quoteField(fixed[i])], <<COMMA>>)
    IN  join(<<newHeaderLine>> \o Tail(lines), <<LF>>)

MaxHeaderCells == 4
MaxRepairLines == 1

\* header cells as they are written in the file
HC_A        == <<"A">>
HC_B        == <<"B">>
HC_EMPTY    == <<>>
HC_BLANK    == <<QUOTE, SPACE, QUOTE>>
HC_PADDED   == <<QUOTE, SPACE, "E", QUOTE>>
HC_COLUMN_2 == placeholder(2)
HeaderCells == {HC_A, HC_B, HC_EMPTY, HC_BLANK, HC_PADDED, HC_COLUMN_2}

\* lines after the header as they are written in the file
RL_ROW      == <<"1", COMMA, "2", COMMA, "3", COMMA, "4">>
RL_GAP      == <<"1", COMMA, COMMA, "3", COMMA, "4">>
RL_TRAILING == <<"1", COMMA, "2", COMMA, "3", COMMA, "4", SPACE>>
RepairLines == {RL_ROW, RL_GAP, RL_TRAILING}

RepairSources ==
    [header : {h \in SeqsUpTo(HeaderCells, MaxHeaderCells) : Len(h) >= MaxHeaderCells - 1},
     lines : SeqsUpTo(RepairLines, MaxRepairLines),
     eol : LineEndings, final : BOOLEAN]

repairText(src) ==
    join(<<join(src.header, <<COMMA>>)>> \o src.lines, src.eol)
        \o (IF src.final THEN src.eol ELSE <<>>)

RepairInit ==
    /\ rpSource \in RepairSources
    /\ fileText = repairText(rpSource)
    /\ fixedCsvText = <<>>
    /\ repaired = NotReturned
    /\ rpPc = "start"

\* handleFixHeaders: the text is repaired and parsed again
FixHeaders ==
    /\ rpPc = "start"
    /\ fixedCsvText' = fixEmptyHeadersInCsvText(fileText)
    /\ repaired' = parseAndValidateCSVFromText(fixEmptyHeadersInCsvText(fileText))
    /\ rpPc' = "fixed"
    /\ UNCHANGED <<rpSource, fileText>>
    /\ UNCHANGED rpFrame

RepairNext == FixHeaders

RepairIdle ==
    /\ rpSource = <<>> /\ fileText = <<>> /\ fixedCsvText = <<>>
    /\ repaired = NotReturned /\ rpPc = "idle"

-----------------------------------------------------------------------------
(* getQuintile                                                              *)

\* sortedArr[Math.floor(sortedArr.length * k / 5)], the array counted from 0
quintileBound(arr, k) == arr[((Len(arr) * k) \div 5) + 1]

getQuintile_Strict(v, arr) ==
    IF v < quintileBound(arr, 1) THEN 1
    ELSE IF v < quintileBound(arr, 2) THEN 2
    ELSE IF v < quintileBound(arr, 3) THEN 3
    ELSE IF v < quintileBound(arr, 4) THEN 4
    ELSE 5

getQuintile(v, arr) ==
    IF v <= quintileBound(arr, 1) THEN 1
    ELSE IF v <= quintileBound(arr, 2) THEN 2
    ELSE IF v <= quintileBound(arr, 3) THEN 3
    ELSE IF v <= quintileBound(arr, 4) THEN 4
    ELSE 5

MaxPopulation == 5
MaxValue == 6

isAscending(arr) == \A i \in 1..(Len(arr) - 1) : arr[i] <= arr[i + 1]

\* the array of the worked example
OneToTen == [i \in 1..10 |-> i]

SortedArrays ==
    {arr \in SeqsUpTo(1..MaxValue, MaxPopulation) : arr # <<>> /\ isAscending(arr)}
        \cup {OneToTen}

QuintileInit ==
    /\ sortedArr \in SortedArrays
    /\ qValue \in 0..(sortedArr[Len(sortedArr)] + 1)
    /\ rank = 0
    /\ ranks = <<>>
    /\ qtPc = "start"

\* one value is ranked
Rank ==
    /\ qtPc = "start"
    /\ rank' = getQuintile(qValue, sortedArr)
    /\ qtPc' = "ranked"
    /\ UNCHANGED <<qValue, sortedArr, ranks>>
    /\ UNCHANGED qtFrame

\* every element of the population is ranked, as calculateRFM does
RankAll ==
    /\ qtPc = "start"
    /\ ranks' = [i \in 1..Len(sortedArr) |-> getQuintile(sortedArr[i], sortedArr)]
    /\ qtPc' = "rankedAll"
    /\ UNCHANGED <<qValue, sortedArr, rank>>
    /\ UNCHANGED qtFrame

QuintileNext == Rank \/ RankAll

QuintileIdle ==
    /\ qValue = 0 /\ sortedArr = <<>> /\ rank = 0 /\ ranks = <<>> /\ qtPc = "idle"

-----------------------------------------------------------------------------
(* Numbers of the analytics                                                 *)
(*                                                                          *)
(* An amount is a floating-point number: a sum is rounded to the nearest    *)
(* number with MantissaBits significant bits, ties to even.  The model      *)
(* keeps the rounding and narrows the mantissa (53 bits in the code).       *)
(* Times are whole hours; a difference of times is exact.                   *)

MantissaBits == 3

RECURSIVE pow2(_)
pow2(n) == IF n = 0 THEN 1 ELSE 2 * pow2(n - 1)

RECURSIVE bitLength(_)
bitLength(n) == IF n = 0 THEN 0 ELSE 1 + bitLength(n \div 2)

roundToMantissa(n) ==
    IF bitLength(n) <= MantissaBits THEN n
    ELSE LET unit == pow2(bitLength(n) - MantissaBits)
             q == n \div unit
             rest == n % unit
         IN  IF 2 * rest > unit \/ (2 * rest = unit /\ q % 2 = 1)
             THEN (q + 1) * unit
             ELSE q * unit

\* a + b of two amounts
plus(a, b) == roundToMantissa(a + b)

HOURS_PER_DAY == 24

\* Math.round of a number of hours divided by (1000 * 3600 * 24) ms
roundDays(hours) == (2 * hours + HOURS_PER_DAY) \div (2 * HOURS_PER_DAY)

-----------------------------------------------------------------------------
(* calculateRFM                                                             *)

\* names every object inherits: customerData[name] is never undefined
CONSTRUCTOR == <<"c", "o", "n", "s", "t", "r", "u", "c", "t", "o", "r">>
InheritedKeys == {CONSTRUCTOR}

\* a key that is a canonical array index; Object.entries lists these first, ascending
isArrayIndex(id) ==
    /\ id # <<>>
    /\ digitRun(id, 1, Len(id)) = Len(id)
    /\ Len(id) = 1 \/ id[1] # "0"

RECURSIVE maxOf(_)
maxOf(ns) == IF Len(ns) = 1 THEN ns[1]
             ELSE LET m == maxOf(Tail(ns)) IN IF ns[1] > m THEN ns[1] ELSE m

\* new Date(Math.max(...)) and setDate(getDate() + 1): the next local calendar day
snapshotDate(ts) == maxOf([i \in 1..Len(ts) |-> ts[i].InvoiceDate]) + localDay

hasOwn(customerData, id) == \E i \in 1..Len(customerData) : customerData[i].id = id

\* the body of transactions.forEach: customerData as its entries in insertion order
addTransaction(customerData, t, snapshot) ==
    \* an inherited member is found instead of undefined: no entry is made, and the
    \* updates go to that member
    IF t.CustomerID \in InheritedKeys THEN customerData
    ELSE LET entries == IF hasOwn(customerData, t.CustomerID) THEN customerData
                        ELSE Append(customerData,
                                    [id |-> t.CustomerID, recency |-> -1 * HOURS_PER_DAY,
                                     frequency |-> 0, monetary |-> 0])
             diffDays == snapshot - t.InvoiceDate
         IN  [i \in 1..Len(entries) |->
                 IF entries[i].id # t.CustomerID THEN entries[i]
                 ELSE [id |-> entries[i].id,
                       recency |-> IF entries[i].recency = -1 * HOURS_PER_DAY
                                      \/ diffDays < entries[i].recency
                                   THEN diffDays ELSE entries[i].recency,
                       frequency |-> entries[i].frequency + 1,
                       monetary |-> plus(entries[i].monetary, t.TotalPrice)]]

RECURSIVE forEachTransaction(_, _, _)
forEachTransaction(ts, customerData, snapshot) ==
    IF ts = <<>> THEN customerData
    ELSE forEachTransaction(Tail(ts), addTransaction(customerData, Head(ts), snapshot), snapshot)

\* insertion of one entry among array-index keys in ascending order
RECURSIVE insertByIndex(_, _)
insertByIndex(sorted, e) ==
    IF sorted = <<>> THEN <<e>>
    ELSE IF decimalValue(e.id) < decimalValue(Head(sorted).id) THEN <<e>> \o sorted
    ELSE <<Head(sorted)>> \o insertByIndex(Tail(sorted), e)

RECURSIVE sortByIndex(_)
sortByIndex(es) == IF es = <<>> THEN <<>> ELSE insertByIndex(sortByIndex(Tail(es)), Head(es))

\* Object.entries(customerData): array-index keys ascending, then the other keys in
\* the order they were added
objectEntries(customerData) ==
    sortByIndex(SelectSeq(customerData, LAMBDA e : isArrayIndex(e.id)))
        \o SelectSeq(customerData, LAMBDA e : ~isArrayIndex(e.id))

RECURSIVE insertNumber(_, _)
insertNumber(sorted, n) ==
    IF sorted = <<>> THEN <<n>>
    ELSE IF n < Head(sorted) THEN <<n>> \o sorted
    ELSE <<Head(sorted)>> \o insertNumber(Tail(sorted), n)

\* [...].sort((a, b) => a - b)
RECURSIVE sortNumbers(_)
sortNumbers(ns) == IF ns = <<>> THEN <<>> ELSE insertNumber(sortNumbers(Tail(ns)), Head(ns))

segmentMap ==
    [c \in {"555", "554", "545"} |-> "Champions"]
    @@ [c \in {"544", "455", "454", "445"} |-> "Loyal Customers"]
    @@ [c \in {"535", "534", "435", "434"} |-> "Potential Loyalist"]
    @@ [c \in {"525", "524", "523"} |-> "Recent Customers"]
    @@ [c \in {"355", "354", "345"} |-> "Promising"]
    @@ [c \in {"255", "254", "245"} |-> "Customers Needing Attention"]
    @@ [c \in {"333", "332", "323"} |-> "About to Sleep"]
    @@ [c \in {"233", "232", "223"} |-> "At Risk"]
    @@ [c \in {"155", "154", "145"} |-> "Can't Lose Them"]
    @@ [c \in {"111", "112", "121"} |-> "Lost"]

scored_RankAsScore(r, recencySorted, frequencySorted, monetarySorted) ==
    LET R_Score == getQuintile(r.Recency, recencySorted)
        F_Score == getQuintile(r.Frequency, frequencySorted)
        M_Score == getQuintile(r.Monetary, monetarySorted)
        RFM_Score == ToString(R_Score) \o ToString(F_Score) \o ToString(M_Score)
    IN  [CustomerID |-> r.CustomerID, Recency |-> r.Recency, Frequency |-> r.Frequency,
         Monetary |-> r.Monetary,
         R_Score |-> R_Score, F_Score |-> F_Score, M_Score |-> M_Score,
         RFM_Score |-> RFM_Score,
         Segment |-> IF RFM_Score \in DOMAIN segmentMap THEN segmentMap[RFM_Score]
                     ELSE "Others"]

\* the object the last map callback returns
scored(r, recencySorted, frequencySorted, monetarySorted) ==
    LET R_Score == 5 - (getQuintile(r.Recency, recencySorted) - 1)
        F_Score == getQuintile(r.Frequency, frequencySorted)
        M_Score == getQuintile(r.Monetary, monetarySorted)
        RFM_Score == ToString(R_Score) \o ToString(F_Score) \o ToString(M_Score)
    IN  [CustomerID |-> r.CustomerID, Recency |-> r.Recency, Frequency |-> r.Frequency,
         Monetary |-> r.Monetary,
         R_Score |-> R_Score, F_Score |-> F_Score, M_Score |-> M_Score,
         RFM_Score |-> RFM_Score,
         Segment |-> IF RFM_Score \in DOMAIN segmentMap THEN segmentMap[RFM_Score]
                     ELSE "Others"]

calculateRFM(ts) ==
    LET customerData == forEachTransaction(ts, <<>>, snapshotDate(ts))
        entries == objectEntries(customerData)
        rfm == [i \in 1..Len(entries) |->
                   [CustomerID |-> entries[i].id, Recency |-> roundDays(entries[i].recency),
                    Frequency |-> entries[i].frequency, Monetary |-> entries[i].monetary]]
        recencySorted == sortNumbers([i \in 1..Len(rfm) |-> rfm[i].Recency])
        frequencySorted == sortNumbers([i \in 1..Len(rfm) |-> rfm[i].Frequency])
        monetarySorted == sortNumbers([i \in 1..Len(rfm) |-> rfm[i].Monetary])
    IN  [i \in 1..Len(rfm) |-> scored(rfm[i], recencySorted, frequencySorted, monetarySorted)]

-----------------------------------------------------------------------------
(* RFM harness: the canonical transactions                                  *)

MaxTransactions == 3

ID_7  == <<"7">>
ID_12 == <<"1", "2">>
ID_C1 == <<"C", "1">>
CustomerIds == {ID_7, ID_12, ID_C1, CONSTRUCTOR}

\* midnight of a day, and noon of the day after
InvoiceTimes == {0, 36}
\* a small amount, and one at which a sum starts to be rounded
Amounts == {1, pow2(MantissaBits)}
LocalDays == {HOURS_PER_DAY - 1, HOURS_PER_DAY, HOURS_PER_DAY + 1}

\* the large amount is invoiced at the first time only
CanonicalTransactions ==
    {t \in [CustomerID : CustomerIds, InvoiceDate : InvoiceTimes, TotalPrice : Amounts] :
        t.InvoiceDate = 0 \/ t.TotalPrice = 1}

RfmInit ==
    /\ localDay \in LocalDays
    /\ cleanedTransactions \in SeqsUpTo(CanonicalTransactions, MaxTransactions) \ {<<>>}
    /\ rfmData = <<>>
    /\ reordered = <<>>
    /\ rfmAgain = <<>>
    /\ rfPc = "start"

\* RFMStep computes rfmResults from the cleaned transactions
RunRFM ==
    /\ rfPc = "start"
    /\ rfmData' = calculateRFM(cleanedTransactions)
    /\ rfPc' = "ran"
    /\ UNCHANGED <<localDay, cleanedTransactions, reordered, rfmAgain>>
    /\ UNCHANGED rfFrame

\* the same transactions arrive in another order and rfmResults is computed again
RerunRFM ==
    /\ rfPc = "ran"
    /\ \E p \in Permutations(1..Len(cleanedTransactions)) :
          LET ts == [i \in 1..Len(cleanedTransactions) |-> cleanedTransactions[p[i]]]
          IN  /\ reordered' = ts
              /\ rfmAgain' = calculateRFM(ts)
    /\ rfPc' = "reran"
    /\ UNCHANGED <<localDay, cleanedTransactions, rfmData>>
    /\ UNCHANGED rfFrame

RfmNext == RunRFM \/ RerunRFM

RfmIdle ==
    /\ localDay = 0 /\ cleanedTransactions = <<>> /\ rfmData = <<>>
    /\ reordered = <<>> /\ rfmAgain = <<>> /\ rfPc = "idle"

-----------------------------------------------------------------------------
(* Rates and values of the CLTV model: exact fractions n/d, d > 0           *)

RECURSIVE gcd(_, _)
gcd(a, b) == IF b = 0 THEN a ELSE gcd(b, a % b)

abs(n) == IF n < 0 THEN -n ELSE n

Frac(n, d) ==
    LET g == gcd(abs(n), abs(d))
        sign == IF d < 0 THEN -1 ELSE 1
    IN  [n |-> (sign * n) \div g, d |-> (sign * d) \div g]

Whole(n) == [n |-> n, d |-> 1]
add(a, b) == Frac(a.n * b.d + b.n * a.d, a.d * b.d)
subtract(a, b) == Frac(a.n * b.d - b.n * a.d, a.d * b.d)
multiply(a, b) == Frac(a.n * b.n, a.d * b.d)
divide(a, b) == Frac(a.n * b.d, a.d * b.n)
lessOrEqual(a, b) == a.n * b.d <= b.n * a.d
isPositive(a) == a.n > 0

\* the null of churnRateOverride
NoOverride == [n |-> 0, d |-> 0]

-----------------------------------------------------------------------------
(* calculateCLTV                                                            *)

\* the body of rfmData.forEach: segmentData as its entries in insertion order
addToSegment(segmentData, r) ==
    LET entries == IF \E i \in 1..Len(segmentData) : segmentData[i].segment = r.Segment
                   THEN segmentData
                   ELSE Append(segmentData, [segment |-> r.Segment, monetary |-> <<>>,
                                             frequency |-> <<>>, count |-> 0])
    IN  [i \in 1..Len(entries) |->
            IF entries[i].segment # r.Segment THEN entries[i]
            ELSE [segment |-> r.Segment,
                  monetary |-> Append(entries[i].monetary, r.Monetary),
                  frequency |-> Append(entries[i].frequency, r.Frequency),
                  count |-> entries[i].count + 1]]

RECURSIVE groupBySegment(_, _)
groupBySegment(rfm, segmentData) ==
    IF rfm = <<>> THEN segmentData
    ELSE groupBySegment(Tail(rfm), addToSegment(segmentData, Head(rfm)))

\* reduce((a, b) => a + b, 0) over amounts
RECURSIVE reduceAmounts(_, _)
reduceAmounts(ns, acc) ==
    IF ns = <<>> THEN acc ELSE reduceAmounts(Tail(ns), plus(acc, Head(ns)))

\* reduce((a, b) => a + b, 0) over counts
RECURSIVE reduceCounts(_, _)
reduceCounts(ns, acc) ==
    IF ns = <<>> THEN acc ELSE reduceCounts(Tail(ns), acc + Head(ns))

baseChurnRate(rfm) ==
    LET totalCustomers == Len(rfm)
        repeatCustomers == Len(SelectSeq(rfm, LAMBDA r : r.Frequency > 1))
        retentionRate == IF totalCustomers > 0 THEN Frac(repeatCustomers, totalCustomers)
                         ELSE Whole(0)
    IN  subtract(Whole(1), retentionRate)

effectiveChurnRate_ZeroIsMissing(rfm, override) ==
    IF override # NoOverride /\ override # Whole(0) THEN override ELSE baseChurnRate(rfm)

\* churnRateOverride ?? baseChurnRate
effectiveChurnRate(rfm, override) ==
    IF override # NoOverride THEN override ELSE baseChurnRate(rfm)

\* the two branches on the denominator
lifetimeValue(avgOrderValue, purchaseFrequency, denominator, margin) ==
    IF ~isPositive(denominator)
    THEN multiply(multiply(multiply(avgOrderValue, purchaseFrequency), margin), Whole(100))
    ELSE multiply(divide(multiply(avgOrderValue, purchaseFrequency), denominator), margin)

customerDetail(r, denominator, margin) ==
    LET avgOrderValue == IF r.Frequency > 0 THEN Frac(r.Monetary, r.Frequency) ELSE Whole(0)
        purchaseFrequency == Whole(r.Frequency)
    IN  [CustomerID |-> r.CustomerID,
         CLTV |-> lifetimeValue(avgOrderValue, purchaseFrequency, denominator, margin),
         AvgOrderValue |-> avgOrderValue,
         PurchaseFrequency |-> r.Frequency,
         Segment |-> r.Segment]

segmentSummaryOf_Total(entry, denominator, margin) ==
    LET totalMonetary == reduceAmounts(entry.monetary, 0)
        totalFrequency == reduceCounts(entry.frequency, 0)
        avgOrderValue == IF totalFrequency > 0 THEN Frac(totalMonetary, totalFrequency)
                         ELSE Whole(0)
    IN  [Segment |-> entry.segment, CustomerCount |-> entry.count,
         AvgCLTV |-> lifetimeValue(avgOrderValue, Whole(totalFrequency), denominator, margin)]

segmentSummaryOf(entry, denominator, margin) ==
    LET totalMonetary == reduceAmounts(entry.monetary, 0)
        totalFrequency == reduceCounts(entry.frequency, 0)
        avgOrderValue == IF totalFrequency > 0 THEN Frac(totalMonetary, totalFrequency)
                         ELSE Whole(0)
        purchaseFrequency == IF entry.count > 0 THEN Frac(totalFrequency, entry.count)
                             ELSE Whole(0)
    IN  [Segment |-> entry.segment, CustomerCount |-> entry.count,
         AvgCLTV |-> lifetimeValue(avgOrderValue, purchaseFrequency, denominator, margin)]

\* one summary is put after the summaries that are not below it
RECURSIVE insertSummary(_, _)
insertSummary(sorted, e) ==
    IF sorted = <<>> THEN <<e>>
    ELSE IF lessOrEqual(e.AvgCLTV, Head(sorted).AvgCLTV)
    THEN <<Head(sorted)>> \o insertSummary(Tail(sorted), e)
    ELSE <<e>> \o sorted

sortByAvgCLTV_Unsorted(summaries, acc) == acc \o summaries

\* .sort((a, b) => b.AvgCLTV - a.AvgCLTV), a stable sort
RECURSIVE sortByAvgCLTV(_, _)
sortByAvgCLTV(summaries, acc) ==
    IF summaries = <<>> THEN acc
    ELSE sortByAvgCLTV(Tail(summaries), insertSummary(acc, Head(summaries)))

calculateCLTV(rfm, margin, discount, override) ==
    LET segmentData == groupBySegment(rfm, <<>>)
        denominator == add(effectiveChurnRate(rfm, override), discount)
        segmentSummary == [i \in 1..Len(segmentData) |->
                              segmentSummaryOf(segmentData[i], denominator, margin)]
    IN  [segmentData |-> sortByAvgCLTV(segmentSummary, <<>>),
         customerDetails |-> [i \in 1..Len(rfm) |-> customerDetail(rfm[i], denominator, margin)]]

-----------------------------------------------------------------------------
(* CLTV harness: the RFM records and the settings of CLTVStep               *)

MaxCustomers == 3

\* the fields of an RFM record that calculateCLTV reads; the i-th customer is "i"
Purchases == { [Frequency |-> 0, Monetary |-> 0], [Frequency |-> 1, Monetary |-> 4],
               [Frequency |-> 2, Monetary |-> 5] }
Segments == {"Champions", "Lost", "Others"}

RfmInputs ==
    { [i \in 1..Len(rs) |-> [CustomerID |-> toDecimal(i), Frequency |-> rs[i][1].Frequency,
                              Monetary |-> rs[i][1].Monetary, Segment |-> rs[i][2]]] :
      rs \in SeqsUpTo(Purchases \X Segments, MaxCustomers) \ {<<>>} }

\* what the number fields of CLTVStep hold, in percent
MarginPercents == {25, -10}
DiscountPercents == {10, 0}
ChurnPercents == {50, 0, -10}

CltvInit ==
    /\ rfmInput \in RfmInputs
    /\ profitMargin = Whole(0)
    /\ discountRate = Whole(0)
    /\ churnRateOverride = NoOverride
    /\ cltvResults = [segmentData |-> <<>>, customerDetails |-> <<>>]
    /\ cvPc = "start"

\* cltvResults of CLTVStep: the percent fields are divided by 100
ComputeCLTV ==
    /\ cvPc = "start"
    /\ \E pm \in MarginPercents, dr \in DiscountPercents,
          ov \in {NoOverride} \cup {Frac(c, 100) : c \in ChurnPercents} :
          /\ profitMargin' = Frac(pm, 100)
          /\ discountRate' = Frac(dr, 100)
          /\ churnRateOverride' = ov
          /\ cltvResults' = calculateCLTV(rfmInput, Frac(pm, 100), Frac(dr, 100), ov)
    /\ cvPc' = "computed"
    /\ UNCHANGED rfmInput
    /\ UNCHANGED cvFrame

CltvNext == ComputeCLTV

CltvIdle ==
    /\ rfmInput = <<>> /\ profitMargin = Whole(0) /\ discountRate = Whole(0)
    /\ churnRateOverride = NoOverride
    /\ cltvResults = [segmentData |-> <<>>, customerDetails |-> <<>>] /\ cvPc = "idle"

-----------------------------------------------------------------------------
(* calculateMBA                                                             *)
(* An object ({}) is the sequence of its own entries [id, v] in the order   *)
(* the keys were added; a count is Num(n), or NaN once it is not a number;  *)
(* a support, confidence or lift is an exact fraction or notANumber.        *)

PIPE == "|"

\* the characters of the item labels, by ascending UTF-16 code unit
CodeUnitOrder == <<"A", "B", "M", "a", "c", "d", "e", "i", "k", "l", "n", "o", "r", "s",
                   "t", "u", "|">>
codeUnit(c) == CHOOSE i \in 1..Len(CodeUnitOrder) : CodeUnitOrder[i] = c

\* a sorts before b under the default comparison of Array.prototype.sort
RECURSIVE precedes(_, _)
precedes(a, b) ==
    IF b = <<>> THEN FALSE
    ELSE IF a = <<>> THEN TRUE
    ELSE IF a[1] = b[1] THEN precedes(Tail(a), Tail(b))
    ELSE codeUnit(a[1]) < codeUnit(b[1])

\* [a, b].sort()
sortPair(a, b) == IF precedes(b, a) THEN <<b, a>> ELSE <<a, b>>

\* itemsetKey.split('|'), part being the piece read so far
RECURSIVE splitKey(_, _)
splitKey(s, part) ==
    IF s = <<>> THEN <<part>>
    ELSE IF s[1] = PIPE THEN <<part>> \o splitKey(Tail(s), <<>>)
    ELSE splitKey(Tail(s), Append(part, s[1]))

\* object[id] = v
setKey(object, id, v) ==
    IF hasOwn(object, id)
    THEN [i \in 1..Len(object) |-> IF object[i].id = id THEN [id |-> id, v |-> v] ELSE object[i]]
    ELSE Append(object, [id |-> id, v |-> v])

getKey(object, id) == object[CHOOSE i \in 1..Len(object) : object[i].id = id].v

notANumber == [n |-> 0, d |-> 0]
isNumber(a) == a.d # 0
\* count / numTransactions
ratio(count, numTransactions) ==
    IF count.nan \/ numTransactions = 0 THEN notANumber ELSE Frac(count.v, numTransactions)
\* a / b on supports; a support that is a number is above 0
quotient(a, b) == IF isNumber(a) /\ isNumber(b) /\ b.n # 0 THEN divide(a, b) ELSE notANumber
\* a >= b, false when either is NaN
atLeast(a, b) == isNumber(a) /\ isNumber(b) /\ lessOrEqual(b, a)

ThrownTypeError == [threw |-> TRUE, rules |-> <<>>, frequentItems |-> <<>>]

\* 1. the body of transactions.forEach; the Set keeps each Description once
addToBasket(baskets, t) ==
    IF hasOwn(baskets, t.InvoiceID)
    THEN LET basket == getKey(baskets, t.InvoiceID)
         IN  IF \E i \in 1..Len(basket) : basket[i] = t.Description THEN baskets
             ELSE setKey(baskets, t.InvoiceID, Append(basket, t.Description))
    ELSE Append(baskets, [id |-> t.InvoiceID, v |-> <<t.Description>>])

RECURSIVE groupBaskets(_, _)
groupBaskets(ts, baskets) ==
    IF ts = <<>> THEN baskets ELSE groupBaskets(Tail(ts), addToBasket(baskets, Head(ts)))

\* !baskets[t.InvoiceID] finds the inherited member, which has no add method
throwsTypeError(ts) == \E i \in 1..Len(ts) : ts[i].InvoiceID \in InheritedKeys

\* Object.values(baskets).map(set => Array.from(set))
transactionListOf(ts) ==
    LET entries == objectEntries(groupBaskets(ts, <<>>))
    IN  [i \in 1..Len(entries) |-> entries[i].v]

\* 2. itemSupports[item] = (itemSupports[item] || 0) + 1; an inherited member is
\* not replaced by 0, and the sum with it is a string
countItem(itemSupports, item) ==
    IF hasOwn(itemSupports, item)
    THEN LET count == getKey(itemSupports, item)
         IN  setKey(itemSupports, item, IF count.nan THEN NaN ELSE Num(count.v + 1))
    ELSE IF item \in InheritedKeys THEN setKey(itemSupports, item, NaN)
    ELSE setKey(itemSupports, item, Num(1))

RECURSIVE countBasket(_, _)
countBasket(basket, itemSupports) ==
    IF basket = <<>> THEN itemSupports
    ELSE countBasket(Tail(basket), countItem(itemSupports, Head(basket)))

RECURSIVE countBaskets(_, _)
countBaskets(transactionList, itemSupports) ==
    IF transactionList = <<>> THEN itemSupports
    ELSE countBaskets(Tail(transactionList), countBasket(Head(transactionList), itemSupports))

\* one element is put after the elements that are not below it
RECURSIVE insertBySupport(_, _)
insertBySupport(sorted, e) ==
    IF sorted = <<>> THEN <<e>>
    ELSE IF lessOrEqual(e.support, Head(sorted).support)
    THEN <<Head(sorted)>> \o insertBySupport(Tail(sorted), e)
    ELSE <<e>> \o sorted

\* .sort((a, b) => b.support - a.support)
RECURSIVE sortBySupport(_, _)
sortBySupport(items, acc) ==
    IF items = <<>> THEN acc ELSE sortBySupport(Tail(items), insertBySupport(acc, Head(items)))

\* 3. the frequent 1-itemsets
frequentItemsOf(itemSupports, numTransactions, supportMin) ==
    LET entries == objectEntries(itemSupports)
        mapped == [i \in 1..Len(entries) |->
                      [item |-> entries[i].id, support |-> ratio(entries[i].v, numTransactions)]]
    IN  sortBySupport(SelectSeq(mapped, LAMBDA e : atLeast(e.support, supportMin)), <<>>)

\* 4. the two loops over frequentItemNames, from the pair (i, j) on
RECURSIVE candidateLoop(_, _, _, _)
candidateLoop(names, i, j, candidatePairs) ==
    IF i > Len(names) THEN candidatePairs
    ELSE IF j > Len(names) THEN candidateLoop(names, i + 1, i + 2, candidatePairs)
    ELSE LET pair == sortPair(names[i], names[j])
         IN  candidateLoop(names, i, j + 1,
                           setKey(candidatePairs, join(pair, <<PIPE>>), [pair |-> pair, count |-> 0]))

\* 5. count++ for every basket that includes both items of the pair
countPairs(candidatePairs, transactionList) ==
    [k \in 1..Len(candidatePairs) |->
        [id |-> candidatePairs[k].id,
         v  |-> [pair  |-> candidatePairs[k].v.pair,
                 count |-> Cardinality({b \in 1..Len(transactionList) :
                              \A p \in 1..2 : \E i \in 1..Len(transactionList[b]) :
                                  transactionList[b][i] = candidatePairs[k].v.pair[p]})]]]

\* 6. the pairs that are frequent, then every key of itemSupports
RECURSIVE keepFrequentPairs(_, _, _, _)
keepFrequentPairs(pairs, numTransactions, supportMin, frequentItemsets) ==
    IF pairs = <<>> THEN frequentItemsets
    ELSE LET p == Head(pairs).v
         IN  keepFrequentPairs(Tail(pairs), numTransactions, supportMin,
                 IF atLeast(Frac(p.count, numTransactions), supportMin)
                 THEN setKey(frequentItemsets, join(p.pair, <<PIPE>>), Num(p.count))
                 ELSE frequentItemsets)

RECURSIVE copyItems(_, _)
copyItems(items, frequentItemsets) ==
    IF items = <<>> THEN frequentItemsets
    ELSE copyItems(Tail(items), setKey(frequentItemsets, Head(items).id, Head(items).v))

\* itemSupports[name] / numTransactions: undefined and inherited members give NaN
supportOfName(itemSupports, name, numTransactions) ==
    IF hasOwn(itemSupports, name) THEN ratio(getKey(itemSupports, name), numTransactions)
    ELSE notANumber

Rule(a, b, support, confidence, lift) ==
    [antecedent |-> a, consequent |-> b, support |-> support, confidence |-> confidence,
     lift |-> lift]

\* 7. the body of Object.entries(frequentItemsets).forEach
rulesOfItemset(entry, itemSupports, numTransactions, confidenceMin, liftMin) ==
    LET itemset == splitKey(entry.id, <<>>)
    IN  IF Len(itemset) <= 1 THEN <<>>
        ELSE LET itemsetSupport == ratio(entry.v, numTransactions)
                 supportA == supportOfName(itemSupports, itemset[1], numTransactions)
                 supportB == supportOfName(itemSupports, itemset[2], numTransactions)
                 confidenceAtoB == quotient(itemsetSupport, supportA)
                 confidenceBtoA == quotient(itemsetSupport, supportB)
                 liftAtoB == quotient(confidenceAtoB, supportB)
                 liftBtoA == quotient(confidenceBtoA, supportA)
             IN  (IF atLeast(confidenceAtoB, confidenceMin) /\ atLeast(liftAtoB, liftMin)
                  THEN <<Rule(itemset[1], itemset[2], itemsetSupport, confidenceAtoB, liftAtoB)>>
                  ELSE <<>>)
                 \o
                 (IF atLeast(confidenceBtoA, confidenceMin) /\ atLeast(liftBtoA, liftMin)
                  THEN <<Rule(itemset[2], itemset[1], itemsetSupport, confidenceBtoA, liftBtoA)>>
                  ELSE <<>>)

RECURSIVE generateRules(_, _, _, _, _)
generateRules(entries, itemSupports, numTransactions, confidenceMin, liftMin) ==
    IF entries = <<>> THEN <<>>
    ELSE rulesOfItemset(Head(entries), itemSupports, numTransactions, confidenceMin, liftMin)
         \o generateRules(Tail(entries), itemSupports, numTransactions, confidenceMin, liftMin)

RECURSIVE insertByLift(_, _)
insertByLift(sorted, e) ==
    IF sorted = <<>> THEN <<e>>
    ELSE IF lessOrEqual(e.lift, Head(sorted).lift)
    THEN <<Head(sorted)>> \o insertByLift(Tail(sorted), e)
    ELSE <<e>> \o sorted

\* rules.sort((a, b) => b.lift - a.lift)
RECURSIVE sortByLift(_, _)
sortByLift(rules, acc) ==
    IF rules = <<>> THEN acc ELSE sortByLift(Tail(rules), insertByLift(acc, Head(rules)))

calculateMBA(ts, supportMin, confidenceMin, liftMin) ==
    IF throwsTypeError(ts) THEN ThrownTypeError
    ELSE LET transactionList == transactionListOf(ts)
             numTransactions == Len(transactionList)
             itemSupports == countBaskets(transactionList, <<>>)
             frequentItems == frequentItemsOf(itemSupports, numTransactions, supportMin)
             frequentItemNames == [i \in 1..Len(frequentItems) |-> frequentItems[i].item]
             candidatePairs == countPairs(candidateLoop(frequentItemNames, 1, 2, <<>>),
                                          transactionList)
             frequentItemsets ==
                 copyItems(objectEntries(itemSupports),
                           keepFrequentPairs(objectEntries(candidatePairs), numTransactions,
                                             supportMin, <<>>))
             rules == generateRules(objectEntries(frequentItemsets), itemSupports,
                                    numTransactions, confidenceMin, liftMin)
         IN  [threw |-> FALSE, rules |-> sortByLift(rules, <<>>),
              frequentItems |-> frequentItems]

-----------------------------------------------------------------------------
(* Market-basket harness: calculateMBA on the transactions of a few         *)
(* invoices, and again with a minimum support that is not lower             *)

MaxInvoices == 2

ITEM_A  == <<"A">>
ITEM_B  == <<"B">>
ITEM_AA == <<"A", "|", "A">>
ITEM_AB == <<"A", "|", "B">>
BREAD   == <<"B", "r", "e", "a", "d">>
MILK    == <<"M", "i", "l", "k">>
Labels == <<ITEM_A, ITEM_B, ITEM_AA, ITEM_AB>>

invoiceIdAt(i) == <<"I", "N", "V">> \o toDecimal(i)
Purchase(invoice, item) == [InvoiceID |-> invoice, Description |-> item]

\* the purchases of one invoice: the chosen labels, in the order of Labels
purchasesOf(invoice, chosen) ==
    LET picked == SelectSeq(Labels, LAMBDA item : item \in chosen)
    IN  [i \in 1..Len(picked) |-> Purchase(invoice, picked[i])]

RECURSIVE invoicesFrom(_, _)
invoicesFrom(choice, i) ==
    IF i > Len(choice) THEN <<>>
    ELSE purchasesOf(invoiceIdAt(i), choice[i]) \o invoicesFrom(choice, i + 1)

Variants == {"plain", "repeated", "inheritedInvoice", "inheritedItem"}

\* "repeated": the first purchase occurs twice in its invoice; "inheritedInvoice":
\* one more invoice, named constructor; "inheritedItem": one more item, named constructor
withVariant(ts, variant) ==
    IF variant = "repeated" THEN <<ts[1]>> \o ts
    ELSE IF variant = "inheritedInvoice" THEN Append(ts, Purchase(CONSTRUCTOR, ts[1].Description))
    ELSE IF variant = "inheritedItem" THEN Append(ts, Purchase(ts[Len(ts)].InvoiceID, CONSTRUCTOR))
    ELSE ts

BreadAndMilk == <<Purchase(invoiceIdAt(1), BREAD), Purchase(invoiceIdAt(1), MILK),
                  Purchase(invoiceIdAt(2), BREAD), Purchase(invoiceIdAt(2), MILK)>>

MbaInputs ==
    { withVariant(invoicesFrom(choice, 1), variant) :
        choice \in UNION { [1..k -> (SUBSET {Labels[i] : i \in 1..Len(Labels)}) \ {{}}] :
                           k \in 1..MaxInvoices },
        variant \in Variants }
    \cup {BreadAndMilk}

MinSupports == {Frac(1, 10), Frac(1, 2), Whole(1)}
MinConfidences == {Frac(1, 2), Whole(1)}
MinLifts == {Whole(1), Whole(2)}

NoMbaData == [threw |-> FALSE, rules |-> <<>>, frequentItems |-> <<>>]

MbaInit ==
    /\ mbaTransactions \in MbaInputs
    /\ minSupport = Whole(0) /\ minConfidence = Whole(0) /\ minLift = Whole(0)
    /\ mbaResults = NoMbaData
    /\ raisedSupport = Whole(0) /\ mbaRaised = NoMbaData
    /\ mbPc = "start"

RunMBA ==
    /\ mbPc = "start"
    /\ \E s \in MinSupports, c \in MinConfidences, l \in MinLifts :
          /\ minSupport' = s /\ minConfidence' = c /\ minLift' = l
          /\ mbaResults' = calculateMBA(mbaTransactions, s, c, l)
    /\ mbPc' = "ran"
    /\ UNCHANGED <<mbaTransactions, raisedSupport, mbaRaised>>
    /\ UNCHANGED mbFrame

\* the same analysis with the minimum support raised
RaiseSupport ==
    /\ mbPc = "ran"
    /\ \E s \in MinSupports :
          /\ lessOrEqual(minSupport, s)
          /\ raisedSupport' = s
          /\ mbaRaised' = calculateMBA(mbaTransactions, s, minConfidence, minLift)
    /\ mbPc' = "raised"
    /\ UNCHANGED <<mbaTransactions, minSupport, minConfidence, minLift, mbaResults>>
    /\ UNCHANGED mbFrame

MbaNext == RunMBA \/ RaiseSupport

MbaIdle ==
    /\ mbaTransactions = <<>>
    /\ minSupport = Whole(0) /\ minConfidence = Whole(0) /\ minLift = Whole(0)
    /\ mbaResults = NoMbaData
    /\ raisedSupport = Whole(0) /\ mbaRaised = NoMbaData
    /\ mbPc = "idle"

-----------------------------------------------------------------------------
(* One call of parseCsvRow, an iteration of its outer loop at a time        *)

MaxRowLen == 4
RowChars == {QUOTE, COMMA, SPACE, "a"}
ScanRows == SeqsUpTo(RowChars, MaxRowLen)

ScanInit ==
    /\ scanRow \in ScanRows
    /\ scPosition = 1
    /\ scanned = <<>>
    /\ scPc = "scanning"

\* one iteration of while (position < row.length)
ScanField ==
    /\ scPc = "scanning"
    /\ scPosition <= Len(scanRow)
    /\ LET f == nextField(scanRow, scPosition)
       IN  /\ scanned' = Append(scanned, f.value)
           /\ scPosition' = pastComma(scanRow, f.position)
    /\ UNCHANGED <<scanRow, scPc>>
    /\ UNCHANGED scFrame

\* the loop is left: the trailing comma, and return fields
ScanReturn ==
    /\ scPc = "scanning"
    /\ scPosition > Len(scanRow)
    /\ scanned' = trailingComma(scanRow, scanned)
    /\ scPc' = "returned"
    /\ UNCHANGED <<scanRow, scPosition>>
    /\ UNCHANGED scFrame

ScanNext == ScanField \/ ScanReturn

ScanIdle == scanRow = <<>> /\ scPosition = 0 /\ scanned = <<>> /\ scPc = "idle"

-----------------------------------------------------------------------------
(* UploadStep: file selections, their asynchronous parses, and the repair   *)
(* of empty headers.  A file is its index in UploadFiles, 0 being null.     *)

\* what parseAndValidateCSV(file, limit) resolves to when no read fails
parseAndValidateCSV(csvText, limit) ==
    LET lines == splitLines(csvText)
        st == processLines(ParserStart, SubSeq(lines, 1, Len(lines) - 1), limit)
    IN  IF st.returned THEN st.ret ELSE endOfStream(st, lines[Len(lines)], limit).ret

\* result.key || false
orFalse(r, key) == key \in DOMAIN r /\ r[key]

uploadEmptyError == Message("uploadEmpty", 0, 0, <<>>)

NoFileName == [name |-> 0, fixed |-> FALSE]
\* prev ? `${prev.replace(' (fixed)', '')} (fixed)` : 'fixed file'
fixedName(prev) == [name |-> prev.name, fixed |-> TRUE]

UploadStart ==
    [fileName |-> NoFileName, errors |-> <<>>, isLoading |-> FALSE, uploadSuccess |-> FALSE,
     isTruncated |-> FALSE, rowCount |-> 0, hasEmptyHeaderError |-> FALSE, originalFile |-> 0]

resetStateBeforeUpload_KeepsFile(u) ==
    [u EXCEPT !.errors = <<>>, !.uploadSuccess = FALSE, !.isTruncated = FALSE, !.rowCount = 0]

\* resetStateBeforeUpload, but for setRawTransactions([])
resetStateBeforeUpload(u) ==
    [u EXCEPT !.errors = <<>>, !.uploadSuccess = FALSE, !.hasEmptyHeaderError = FALSE,
              !.originalFile = 0, !.isTruncated = FALSE, !.rowCount = 0]

\* processFile after await parseAndValidateCSV: the component state
afterParse(u, f, r) ==
    LET seen == [u EXCEPT !.hasEmptyHeaderError = orFalse(r, "hasEmptyHeaders"),
                          !.originalFile = IF orFalse(r, "hasEmptyHeaders") THEN f ELSE @]
    IN  IF Len(r.errors) > 0
        THEN [seen EXCEPT !.errors = r.errors, !.uploadSuccess = FALSE, !.isLoading = FALSE]
        ELSE IF Len(r.data) = 0
        THEN [seen EXCEPT !.errors = <<uploadEmptyError>>, !.uploadSuccess = FALSE,
                          !.isLoading = FALSE]
        ELSE [seen EXCEPT !.uploadSuccess = TRUE, !.errors = <<>>,
                          !.isTruncated = IF orFalse(r, "truncated") THEN TRUE ELSE @,
                          !.rowCount = IF orFalse(r, "truncated")
                                       THEN (IF "rowCount" \in DOMAIN r THEN r.rowCount ELSE 0)
                                       ELSE @,
                          !.isLoading = FALSE]

\* handleFixHeaders after await originalFile.text(): the component state
afterFix(u, r) ==
    LET named == [u EXCEPT !.fileName = fixedName(@)]
    IN  IF Len(r.errors) > 0
        THEN [named EXCEPT !.errors = r.errors, !.uploadSuccess = FALSE, !.isLoading = FALSE]
        ELSE [named EXCEPT !.isTruncated = IF Len(r.data) > ROW_LIMIT THEN TRUE ELSE @,
                           !.rowCount = IF Len(r.data) > ROW_LIMIT THEN ROW_LIMIT ELSE Len(r.data),
                           !.uploadSuccess = TRUE, !.errors = <<>>, !.isLoading = FALSE]

\* the rows a result stores with setRawTransactions, or stored when it stores none
storedRows(stored, r, emptyIsError) ==
    IF Len(r.errors) > 0 \/ (emptyIsError /\ Len(r.data) = 0) THEN stored
    ELSE IF Len(r.data) > ROW_LIMIT THEN SubSeq(r.data, 1, ROW_LIMIT) ELSE r.data

\* "Fix Empty Headers & Re-Validate" is rendered
fixButtonShown(u) == Len(u.errors) > 0 /\ ~u.isLoading /\ u.hasEmptyHeaderError

MaxPending == 2

uploadFile(header, rows) ==
    textOf([header |-> header, eol |-> <<LF>>, final |-> TRUE, good |-> 0, tail |-> rows])
UploadFiles ==
    << uploadFile(H_OK, <<ROW_1>>), uploadFile(H_OK, <<ROW_2>>), uploadFile(H_EMPTY, <<ROW_1>>),
       uploadFile(H_SHORT_DUP, <<ROW_SHORT>>), uploadFile(H_OK, <<>>) >>
FileIds == 1..Len(UploadFiles)

Task(kind, f) == [task |-> kind, file |-> f]
without(tasks, i) == SubSeq(tasks, 1, i - 1) \o SubSeq(tasks, i + 1, Len(tasks))

UploadInit ==
    /\ upload = UploadStart
    /\ rawTransactions = <<>>
    /\ pending = <<>>
    /\ selected = 0
    /\ upPc = "mounted"

\* handleFileChange -> processFile, up to await parseAndValidateCSV; the change event
\* fires when the input's file changes
SelectFile ==
    /\ upPc = "mounted"
    /\ Len(pending) < MaxPending
    /\ \E f \in FileIds :
          /\ f # selected
          /\ upload' = [resetStateBeforeUpload(upload) EXCEPT
                            !.isLoading = TRUE, !.fileName = [name |-> f, fixed |-> FALSE]]
          /\ rawTransactions' = <<>>
          /\ pending' = Append(pending, Task("parse", f))
          /\ selected' = f
    /\ UNCHANGED upPc
    /\ UNCHANGED upFrame

\* the parse of a file resolves: the rest of processFile
ParseResolves ==
    /\ upPc = "mounted"
    /\ \E i \in 1..Len(pending) :
          /\ pending[i].task = "parse"
          /\ LET r == parseAndValidateCSV(UploadFiles[pending[i].file], ROW_LIMIT)
             IN  /\ upload' = afterParse(upload, pending[i].file, r)
                 /\ rawTransactions' = storedRows(rawTransactions, r, TRUE)
          /\ pending' = without(pending, i)
    /\ UNCHANGED <<selected, upPc>>
    /\ UNCHANGED upFrame

\* handleFixHeaders, up to await originalFile.text()
ClickFixHeaders ==
    /\ upPc = "mounted"
    /\ fixButtonShown(upload)
    /\ Len(pending) < MaxPending
    /\ IF upload.originalFile = 0
       THEN UNCHANGED <<upload, rawTransactions, pending>>
       ELSE /\ upload' = [resetStateBeforeUpload(upload) EXCEPT !.isLoading = TRUE]
            /\ rawTransactions' = <<>>
            /\ pending' = Append(pending, Task("fix", upload.originalFile))
    /\ UNCHANGED <<selected, upPc>>
    /\ UNCHANGED upFrame

\* the text of the file resolves: it is repaired and parsed in memory
TextResolves ==
    /\ upPc = "mounted"
    /\ \E i \in 1..Len(pending) :
          /\ pending[i].task = "fix"
          /\ LET r == parseAndValidateCSVFromText(
                          fixEmptyHeadersInCsvText(UploadFiles[pending[i].file]))
             IN  /\ upload' = afterFix(upload, r)
                 /\ rawTransactions' = storedRows(rawTransactions, r, FALSE)
          /\ pending' = without(pending, i)
    /\ UNCHANGED <<selected, upPc>>
    /\ UNCHANGED upFrame

UploadNext == SelectFile \/ ParseResolves \/ ClickFixHeaders \/ TextResolves

UploadIdle ==
    /\ upload = UploadStart /\ rawTransactions = <<>> /\ pending = <<>> /\ selected = 0
    /\ upPc = "idle"

-----------------------------------------------------------------------------
(* The wizard: App, CleaningStep.handleProcessAndNext and                   *)
(* MBAStep.handleRunAnalysis, with their timers                             *)

totalSteps == 7

ZERO_RESULT_MESSAGE ==
    "Cleaning process resulted in 0 valid transactions. Please review your mapping and cleaning options."
CLEANING_FAILED_MESSAGE == "An error occurred during data cleaning. Check console for details."
MISSING_MAPPING_MESSAGE == "Please map the following fields: "
AI_MAPPING_MESSAGE ==
    "AI could not confidently map all fields. Please review the mapping manually."
NO_RULES_MESSAGE ==
    "No association rules found with the current settings. Try lowering the Minimum Support or Confidence."
MBA_FAILED_MESSAGE == "An error occurred during Market Basket Analysis."

\* an error text, with the field names a template puts after it
Notice(words) == [words |-> words, fields |-> <<>>]
NoNotice == Notice("")

requiredFields ==
    <<"customerId", "invoiceId", "invoiceDate", "quantity", "unitPrice", "description">>
EmptyMapping == [f \in {requiredFields[i] : i \in 1..Len(requiredFields)} |-> ""]
\* columnMapping is null until a mapping is stored; a stored mapping has no empty field
NullMapping == EmptyMapping
missingMappings(localMapping) == SelectSeq(requiredFields, LAMBDA f : localMapping[f] = "")

\* cleanedCount is null
NoCount == -1

\* MBAData | null
NoResults == [present |-> FALSE, rules |-> <<>>, frequentItems |-> <<>>]
Results(r) == [present |-> TRUE, rules |-> r.rules, frequentItems |-> r.frequentItems]

\* goToNextStep and goToPrevStep: the updater functions
nextStep(prev) == IF prev + 1 < totalSteps THEN prev + 1 ELSE totalSteps
prevStep(prev) == IF prev - 1 > 1 THEN prev - 1 ELSE 1

\* the state a CleaningStep has after mounting: its useState values, then the effect
\* that copies a stored columnMapping
mountCleaning(stored) ==
    [localMapping |-> IF stored = NullMapping THEN EmptyMapping ELSE stored,
     cleaningOptions |-> [removeNullCustomerId |-> TRUE, removeNegativeQuantity |-> TRUE,
                          removeDuplicateTransactions |-> TRUE, handleMissingUnitPrice |-> TRUE],
     isAiLoading |-> FALSE, error |-> NoNotice, cleanedCount |-> NoCount]
\* no CleaningStep is mounted
NoCleaningStep == mountCleaning(NullMapping)

\* the state an MBAStep has after mounting; the thresholds are those handed to
\* calculateMBA: 1 %, 20 % and 1
mountMba ==
    [minSupport |-> Frac(1, 100), minConfidence |-> Frac(20, 100), minLift |-> Whole(1),
     results |-> NoResults, isLoading |-> FALSE, error |-> NoNotice]
NoMbaStep == mountMba

\* handleProcessAndNext: what it leaves in the component, with what it hands to
\* setCleanedTransactions and setColumnMapping and whether it sets the timer
handleProcessAndNext_Advances(step, rows, storedRows0, storedMapping) ==
    LET cleanedRows == cleanData(rows, step.localMapping, step.cleaningOptions)
    IN  IF Len(missingMappings(step.localMapping)) > 0
        THEN [step |-> [step EXCEPT !.error = [words |-> MISSING_MAPPING_MESSAGE,
                                               fields |-> missingMappings(step.localMapping)]],
              cleaned |-> storedRows0, mapping |-> storedMapping, timer |-> FALSE]
        ELSE IF Len(cleanedRows) = 0
        THEN [step |-> [step EXCEPT !.error = Notice(ZERO_RESULT_MESSAGE), !.cleanedCount = 0],
              cleaned |-> storedRows0, mapping |-> storedMapping, timer |-> TRUE]
        ELSE [step |-> [step EXCEPT !.error = NoNotice, !.cleanedCount = Len(cleanedRows)],
              cleaned |-> cleanedRows, mapping |-> step.localMapping, timer |-> TRUE]

handleProcessAndNext(step, rows, storedRows0, storedMapping) ==
    LET cleanedRows == cleanData(rows, step.localMapping, step.cleaningOptions)
    IN  IF Len(missingMappings(step.localMapping)) > 0
        THEN [step |-> [step EXCEPT !.error = [words |-> MISSING_MAPPING_MESSAGE,
                                               fields |-> missingMappings(step.localMapping)]],
              cleaned |-> storedRows0, mapping |-> storedMapping, timer |-> FALSE]
        ELSE IF Len(cleanedRows) = 0
        THEN [step |-> [step EXCEPT !.error = Notice(ZERO_RESULT_MESSAGE), !.cleanedCount = 0],
              cleaned |-> storedRows0, mapping |-> storedMapping, timer |-> FALSE]
        ELSE [step |-> [step EXCEPT !.error = NoNotice, !.cleanedCount = Len(cleanedRows)],
              cleaned |-> cleanedRows, mapping |-> step.localMapping, timer |-> TRUE]

\* the callback of handleRunAnalysis: what it leaves in the component
afterRun(step, r) ==
    [step EXCEPT !.error = IF Len(r.rules) = 0 THEN Notice(NO_RULES_MESSAGE) ELSE @,
                 !.results = Results(r), !.isLoading = FALSE]

-----------------------------------------------------------------------------
(* Wizard harness: the uploads, the answers of the mapping service, the     *)
(* values set by hand, and the timers outstanding                           *)

MaxAdvances == 2
MaxRuns == 1

W_BREAD  == rawRecord(C_ID, C_INV, D_ISO, Q_TWO, P_THREE, BREAD)
W_MILK   == rawRecord(C_ID, C_INV, D_ISO, Q_TWO, P_THREE, MILK)
W_RETURN == rawRecord(C_ID, C_INV, D_ISO, Q_MINUS, P_MINUS, BREAD)
WizardUploads == {<<W_BREAD, W_MILK>>, <<W_BREAD>>, <<W_RETURN>>}

\* the answers of the mapping service: a mapping of the headers, or none that is usable
AiAnswers == {Identity, EmptyMapping}

\* the options toggled and the lift entered by hand
ToggledOptions == {"removeNegativeQuantity"}
LiftsEntered == {Whole(1), Whole(2)}

\* the step shown next, with the components mounted for it: a component that stays
\* mounted keeps its state, one that is mounted starts anew, and the callbacks of an
\* unmounted MBAStep no longer reach a component
shows(next, cleaningKept, mbaKept, stored) ==
    /\ currentStep' = next
    /\ cleaningStep' = IF next # 2 THEN NoCleaningStep
                       ELSE IF currentStep = 2 THEN cleaningKept ELSE mountCleaning(stored)
    /\ mbaStep' = IF next # 4 THEN NoMbaStep
                  ELSE IF currentStep = 4 THEN mbaKept ELSE mountMba

\* the callbacks outstanding once the step shown is next
callbacksAt(next, rs) ==
    IF next = 4 /\ currentStep = 4 THEN rs
    ELSE [i \in 1..Len(rs) |-> [rs[i] EXCEPT !.mounted = FALSE]]

WizardInit ==
    /\ currentStep = 1
    /\ wizardRaw = <<>>
    /\ wizardCleaned = <<>>
    /\ columnMapping = NullMapping
    /\ mbaData = NoResults
    /\ cleaningStep = NoCleaningStep
    /\ mbaStep = NoMbaStep
    /\ advances = 0
    /\ runs = <<>>
    /\ wzPc = "mounted"

\* UploadStep: a file is parsed and stored with setRawTransactions
Upload ==
    /\ currentStep = 1
    /\ \E rows \in WizardUploads : wizardRaw' = rows
    /\ wzPc' = "processFile"
    /\ UNCHANGED <<currentStep, wizardCleaned, columnMapping, mbaData, cleaningStep,
                   mbaStep, advances, runs>>
    /\ UNCHANGED wzFrame

\* the buttons wired to goToNextStep: UploadStep.handleNext after a successful upload,
\* and the Next buttons of the steps that show their results
ClickNext ==
    /\ \/ currentStep = 1 /\ wizardRaw # <<>>
       \/ currentStep \in {3, 5, 6} /\ wizardCleaned # <<>>
       \/ currentStep = 4 /\ wizardCleaned # <<>> /\ columnMapping # NullMapping
    /\ shows(nextStep(currentStep), cleaningStep, mbaStep, columnMapping)
    /\ runs' = callbacksAt(nextStep(currentStep), runs)
    /\ wzPc' = "goToNextStep"
    /\ UNCHANGED <<wizardRaw, wizardCleaned, columnMapping, mbaData, advances>>
    /\ UNCHANGED wzFrame

\* the Back buttons, wired to goToPrevStep
ClickBack ==
    /\ currentStep \in 2..6
    /\ shows(prevStep(currentStep), cleaningStep, mbaStep, columnMapping)
    /\ runs' = callbacksAt(prevStep(currentStep), runs)
    /\ wzPc' = "goToPrevStep"
    /\ UNCHANGED <<wizardRaw, wizardCleaned, columnMapping, mbaData, advances>>
    /\ UNCHANGED wzFrame

\* navigateToStep
NavigateToStep ==
    /\ \E step \in 1..totalSteps :
          /\ step <= currentStep
          /\ step # currentStep
          /\ shows(step, cleaningStep, mbaStep, columnMapping)
          /\ runs' = callbacksAt(step, runs)
    /\ wzPc' = "navigateToStep"
    /\ UNCHANGED <<wizardRaw, wizardCleaned, columnMapping, mbaData, advances>>
    /\ UNCHANGED wzFrame

\* resetState, from the summary
ResetState ==
    /\ currentStep = totalSteps
    /\ shows(1, cleaningStep, mbaStep, NullMapping)
    /\ runs' = callbacksAt(1, runs)
    /\ wizardRaw' = <<>> /\ wizardCleaned' = <<>> /\ columnMapping' = NullMapping
    /\ mbaData' = NoResults
    /\ wzPc' = "resetState"
    /\ UNCHANGED advances
    /\ UNCHANGED wzFrame

\* the CleaningStep shows its form
cleaningForm == currentStep = 2 /\ wizardRaw # <<>>

\* handleAiMapping with the answer of the service, a mapping of the headers or not
AiMapping ==
    /\ cleaningForm
    /\ \E answer \in AiAnswers :
          cleaningStep' =
              IF answer = EmptyMapping
              THEN [cleaningStep EXCEPT !.error = Notice(AI_MAPPING_MESSAGE)]
              ELSE [cleaningStep EXCEPT !.error = NoNotice, !.localMapping = answer]
    /\ wzPc' = "handleAiMapping"
    /\ UNCHANGED <<currentStep, wizardRaw, wizardCleaned, columnMapping, mbaData,
                   mbaStep, advances, runs>>
    /\ UNCHANGED wzFrame

\* handleCleaningOptionChange
CleaningOptionChange ==
    /\ cleaningForm
    /\ \E option \in ToggledOptions :
          cleaningStep' = [cleaningStep EXCEPT !.cleaningOptions[option] = ~@,
                                               !.cleanedCount = NoCount]
    /\ wzPc' = "handleCleaningOptionChange"
    /\ UNCHANGED <<currentStep, wizardRaw, wizardCleaned, columnMapping, mbaData,
                   mbaStep, advances, runs>>
    /\ UNCHANGED wzFrame

\* handleProcessAndNext
ProcessAndNext ==
    /\ cleaningForm
    /\ advances < MaxAdvances
    /\ LET done == handleProcessAndNext(cleaningStep, wizardRaw, wizardCleaned,
                                        columnMapping)
       IN  /\ cleaningStep' = done.step
           /\ wizardCleaned' = done.cleaned
           /\ columnMapping' = done.mapping
           /\ advances' = IF done.timer THEN advances + 1 ELSE advances
    /\ wzPc' = "handleProcessAndNext"
    /\ UNCHANGED <<currentStep, wizardRaw, mbaData, mbaStep, runs>>
    /\ UNCHANGED wzFrame

\* the timer of handleProcessAndNext fires: goToNextStep
AdvanceFires ==
    /\ advances > 0
    /\ advances' = advances - 1
    /\ shows(nextStep(currentStep), cleaningStep, mbaStep, columnMapping)
    /\ runs' = callbacksAt(nextStep(currentStep), runs)
    /\ wzPc' = "advance"
    /\ UNCHANGED <<wizardRaw, wizardCleaned, columnMapping, mbaData>>
    /\ UNCHANGED wzFrame

\* the MBAStep shows its form
mbaForm == currentStep = 4 /\ wizardCleaned # <<>> /\ columnMapping # NullMapping

\* the minimum lift is entered
EnterMinLift ==
    /\ mbaForm
    /\ \E lift \in LiftsEntered :
          /\ lift # mbaStep.minLift
          /\ mbaStep' = [mbaStep EXCEPT !.minLift = lift]
    /\ wzPc' = "setMinLift"
    /\ UNCHANGED <<currentStep, wizardRaw, wizardCleaned, columnMapping, mbaData,
                   cleaningStep, advances, runs>>
    /\ UNCHANGED wzFrame

\* handleRunAnalysis: the callback holds the transactions and thresholds of its render
RunAnalysis ==
    /\ mbaForm
    /\ ~mbaStep.isLoading
    /\ Len(runs) < MaxRuns
    /\ mbaStep' = [mbaStep EXCEPT !.isLoading = TRUE, !.error = NoNotice, !.results = NoResults]
    /\ runs' = Append(runs, [transactions |-> wizardCleaned,
                             minSupport |-> mbaStep.minSupport,
                             minConfidence |-> mbaStep.minConfidence,
                             minLift |-> mbaStep.minLift, mounted |-> TRUE])
    /\ wzPc' = "handleRunAnalysis"
    /\ UNCHANGED <<currentStep, wizardRaw, wizardCleaned, columnMapping, mbaData,
                   cleaningStep, advances>>
    /\ UNCHANGED wzFrame

\* the callback of handleRunAnalysis runs; a TypeError thrown by calculateMBA ends it
AnalysisRuns ==
    /\ runs # <<>>
    /\ LET run == Head(runs)
           r == calculateMBA(run.transactions, run.minSupport, run.minConfidence, run.minLift)
       IN  IF r.threw
           THEN UNCHANGED <<mbaStep, mbaData>>
           ELSE /\ mbaStep' = IF run.mounted THEN afterRun(mbaStep, r) ELSE mbaStep
                /\ mbaData' = Results(r)
    /\ runs' = Tail(runs)
    /\ wzPc' = "analysis"
    /\ UNCHANGED <<currentStep, wizardRaw, wizardCleaned, columnMapping, cleaningStep,
                   advances>>
    /\ UNCHANGED wzFrame

WizardNext ==
    \/ Upload \/ ClickNext \/ ClickBack \/ NavigateToStep \/ ResetState
    \/ AiMapping \/ CleaningOptionChange \/ ProcessAndNext \/ AdvanceFires
    \/ EnterMinLift \/ RunAnalysis \/ AnalysisRuns

WizardIdle ==
    /\ currentStep = 1 /\ wizardRaw = <<>> /\ wizardCleaned = <<>>
    /\ columnMapping = NullMapping /\ mbaData = NoResults /\ cleaningStep = NoCleaningStep
    /\ mbaStep = NoMbaStep /\ advances = 0 /\ runs = <<>>
    /\ wzPc = "idle"

-----------------------------------------------------------------------------
(* Specifications *)

IngestIdle ==
    /\ source = <<>> /\ file = <<>> /\ rowLimit = 0 /\ offset = 0
    /\ buffer = <<>> /\ headers = <<>> /\ data = <<>> /\ rowCount = 0
    /\ isHeaderProcessed = FALSE /\ cancelled = FALSE /\ pc = "idle"
    /\ result = NotReturned /\ textResult = NotReturned

InitTok ==
    /\ TokInit
    /\ IngestIdle /\ CleanIdle /\ RepairIdle /\ QuintileIdle
    /\ RfmIdle /\ CltvIdle /\ MbaIdle /\ ScanIdle
    /\ UploadIdle /\ WizardIdle
SpecTok == InitTok /\ [][TokNext]_vars

InitIngest ==
    /\ IngestInit
    /\ TokIdle /\ CleanIdle /\ RepairIdle /\ QuintileIdle
    /\ RfmIdle /\ CltvIdle /\ MbaIdle /\ ScanIdle
    /\ UploadIdle /\ WizardIdle
SpecIngest == InitIngest /\ [][IngestNext]_vars

InitClean ==
    /\ CleanInit
    /\ TokIdle /\ IngestIdle /\ RepairIdle /\ QuintileIdle
    /\ RfmIdle /\ CltvIdle /\ MbaIdle /\ ScanIdle
    /\ UploadIdle /\ WizardIdle
SpecClean == InitClean /\ [][CleanNext]_vars

InitRepair ==
    /\ RepairInit
    /\ TokIdle /\ IngestIdle /\ CleanIdle /\ QuintileIdle
    /\ RfmIdle /\ CltvIdle /\ MbaIdle /\ ScanIdle
    /\ UploadIdle /\ WizardIdle
SpecRepair == InitRepair /\ [][RepairNext]_vars

InitQuintile ==
    /\ QuintileInit
    /\ TokIdle /\ IngestIdle /\ CleanIdle /\ RepairIdle
    /\ RfmIdle /\ CltvIdle /\ MbaIdle /\ ScanIdle
    /\ UploadIdle /\ WizardIdle
SpecQuintile == InitQuintile /\ [][QuintileNext]_vars

InitRfm ==
    /\ RfmInit
    /\ TokIdle /\ IngestIdle /\ CleanIdle /\ RepairIdle
    /\ QuintileIdle /\ CltvIdle /\ MbaIdle /\ ScanIdle
    /\ UploadIdle /\ WizardIdle
SpecRfm == InitRfm /\ [][RfmNext]_vars

InitCltv ==
    /\ CltvInit
    /\ TokIdle /\ IngestIdle /\ CleanIdle /\ RepairIdle
    /\ QuintileIdle /\ RfmIdle /\ MbaIdle /\ ScanIdle
    /\ UploadIdle /\ WizardIdle
SpecCltv == InitCltv /\ [][CltvNext]_vars

InitMba ==
    /\ MbaInit
    /\ TokIdle /\ IngestIdle /\ CleanIdle /\ RepairIdle
    /\ QuintileIdle /\ RfmIdle /\ CltvIdle /\ ScanIdle
    /\ UploadIdle /\ WizardIdle
SpecMba == InitMba /\ [][MbaNext]_vars

InitScan ==
    /\ ScanInit
    /\ TokIdle /\ IngestIdle /\ CleanIdle /\ RepairIdle
    /\ QuintileIdle /\ RfmIdle /\ CltvIdle /\ MbaIdle
    /\ UploadIdle /\ WizardIdle
SpecScan == InitScan /\ [][ScanNext]_vars
\* the call runs to its end once started: nothing in the loop waits
SpecScanFair == SpecScan /\ WF_vars(ScanNext)

InitUpload ==
    /\ UploadInit
    /\ TokIdle /\ IngestIdle /\ CleanIdle /\ RepairIdle
    /\ QuintileIdle /\ RfmIdle /\ CltvIdle /\ MbaIdle
    /\ ScanIdle /\ WizardIdle
SpecUpload == InitUpload /\ [][UploadNext]_vars

InitWizard ==
    /\ WizardInit
    /\ TokIdle /\ IngestIdle /\ CleanIdle /\ RepairIdle
    /\ QuintileIdle /\ RfmIdle /\ CltvIdle /\ MbaIdle
    /\ ScanIdle /\ UploadIdle
SpecWizard == InitWizard /\ [][WizardNext]_vars

-----------------------------------------------------------------------------
(* C1: every transaction cleanData returns has a valid InvoiceDate, a      *)
(* TotalPrice that is Quantity x UnitPrice, not NaN and above 0, and a      *)
(* non-empty InvoiceID and Description, whatever the records, the mapping   *)
(* and the four options.                                                    *)
C1_CleanedAreValid ==
    clPc = "cleaned" =>
        \A i \in 1..Len(cleaned) :
            LET t == cleaned[i]
            IN  /\ t.InvoiceDate # null /\ t.InvoiceDate.valid
                /\ t.InvoiceDate.month \in 1..12
                /\ t.InvoiceDate.day \in 1..daysIn(t.InvoiceDate.year, t.InvoiceDate.month)
                /\ t.TotalPrice = times(t.Quantity, t.UnitPrice)
                /\ ~t.TotalPrice.nan /\ t.TotalPrice.v > 0
                /\ t.InvoiceID # <<>> /\ t.Description # <<>>

\* two negative numbers give a total above 0: the record stays when the options are off
C1_Witness ==
    /\ clPc = "cleaned" /\ Len(transactions) = 2 /\ Len(cleaned) = 1
    /\ cleaned[1].Quantity = Num(-1) /\ cleaned[1].UnitPrice = Num(-2)
    /\ cleaned[1].TotalPrice = Num(2)
    /\ ~options.removeNegativeQuantity

(* C2: a field that contains a comma, a double quote or a newline, written *)
(* with the export quoting rule, is read back by parseCsvRow as exactly    *)
(* one field equal to the original.                                        *)
C2_RoundTrip ==
    (tkPc = "tokenized" /\ tkMode = "field" /\ needsQuoting(field))
        => fields = <<field>>

C2_Witness ==
    /\ tkPc = "tokenized" /\ tkMode = "field"
    /\ includes(field, QUOTE) /\ includes(field, COMMA) /\ includes(field, LF)
    /\ fields = <<field>>

(* C3: a non-empty line written from n well-formed fields (n - 1 separating *)
(* commas) tokenizes to exactly n fields; a separating comma at the end of  *)
(* the line, followed by nothing or by blanks, yields one empty field.      *)
C3_FieldCount ==
    (tkPc = "tokenized" /\ tkMode = "cells" /\ row # <<>>) => Len(fields) = Len(cells)

-----------------------------------------------------------------------------
(* What a file holds, read off what it was written from (not off the parsers) *)

isValidRow(src, r) == Len(r) = Len(src.header)
isShortRow(src, r) == r # BLANK /\ Len(r) # Len(src.header)

validRows(src) == SelectSeq(rowsOf(src), LAMBDA r : isValidRow(src, r))

recordOf(hdr, r) ==
    [h \in {hdr[i] : i \in 1..Len(hdr)} |-> r[CHOOSE i \in 1..Len(hdr) : hdr[i] = h]]

\* the first n valid rows as records
firstRecords(src, n) == [i \in 1..n |-> recordOf(src.header, validRows(src)[i])]

\* valid rows among the first j - 1 lines after the header
validBefore(src, j) ==
    Cardinality({i \in 1..(j - 1) : isValidRow(src, rowsOf(src)[i])})

hasEmptyName(hdr) == \E i \in 1..Len(hdr) : hdr[i] = <<>>
repeatedNames(hdr) ==
    {hdr[i] : i \in {k \in 1..Len(hdr) : \E j \in 1..Len(hdr) : j # k /\ hdr[j] = hdr[k]}}

\* the header line is followed by a line ending
headerLineEnds(src) == rowsOf(src) # <<>> \/ src.final
\* a non-blank line follows the header line
hasDataLine(src) == \E i \in 1..Len(rowsOf(src)) : rowsOf(src)[i] # BLANK

isReturned(r) == r # NotReturned
streamFailed == result.errors = <<streamingError>>
\* both calls have returned and no read failed
bothReturned == pc = "returned" /\ isReturned(textResult) /\ ~streamFailed

flag(r, key) == key \in DOMAIN r /\ r[key]
rowCountOf(r) == IF "rowCount" \in DOMAIN r THEN r.rowCount ELSE -1
kinds(r) == {r.errors[i].kind : i \in 1..Len(r.errors)}
headerErrors(r) == {i \in 1..Len(r.errors) : r.errors[i].kind \in HeaderErrorKinds}

\* name occurs in the text of a message, between separators
RECURSIVE occursIn(_, _)
occursIn(name, text) ==
    /\ Len(text) >= Len(name)
    /\ \/ SubSeq(text, 1, Len(name)) = name
       \/ occursIn(name, Tail(text))

-----------------------------------------------------------------------------
(* C4: with a valid header followed by more than rowLimit valid data rows,  *)
(* whatever the chunks, the streaming parser returns truncated = true,      *)
(* rowCount = rowLimit, the first rowLimit rows in order and no error, it   *)
(* cancels the reader, and it never reads again once rowLimit rows are      *)
(* accepted.                                                                *)
moreThanLimit(src) ==
    /\ src.header = H_OK
    /\ \A i \in 1..Len(rowsOf(src)) : ~isShortRow(src, rowsOf(src)[i])
    /\ Len(validRows(src)) > rowLimit

C4_Truncation ==
    /\ (pc = "returned" /\ ~streamFailed /\ moreThanLimit(source)) =>
          /\ result = [data |-> firstRecords(source, rowLimit), errors |-> <<>>,
                       truncated |-> TRUE, rowCount |-> rowLimit]
          /\ cancelled
    /\ pc = "reading" => rowCount < rowLimit

C4_Witness ==
    /\ pc = "returned" /\ ~streamFailed
    /\ rowLimit = 3 /\ Len(validRows(source)) = 5 /\ moreThanLimit(source)
    /\ flag(result, "truncated") /\ Len(result.data) = 3 /\ cancelled
    /\ offset < Len(file)

(* C5: a first non-blank line of at least 4 headers, one of which trims to *)
(* empty, makes both parsers return hasEmptyHeaders = true and zero rows,  *)
(* whatever follows it.                                                    *)
emptyHeaderResult(r) == flag(r, "hasEmptyHeaders") /\ r.data = <<>>

C5_EmptyHeaders ==
    (bothReturned /\ Len(source.header) >= MIN_COLUMNS /\ hasEmptyName(source.header))
        => emptyHeaderResult(result) /\ emptyHeaderResult(textResult)

(* C6: a header line in which a trimmed name occurs more than once makes   *)
(* ingestion return zero rows and a duplicate-header error that lists      *)
(* every duplicated name.                                                  *)
duplicateResult(r, hdr) ==
    /\ r.data = <<>>
    /\ \E i \in 1..Len(r.errors) :
          /\ r.errors[i].kind = "duplicateHeaders"
          /\ \A name \in repeatedNames(hdr) : occursIn(name, r.errors[i].names)

onlyDuplicates(hdr) ==
    Len(hdr) >= MIN_COLUMNS /\ ~hasEmptyName(hdr) /\ repeatedNames(hdr) # {}

firstHeaderCondition(hdr) ==
    IF Len(hdr) < MIN_COLUMNS THEN "tooFewColumns"
    ELSE IF hasEmptyName(hdr) THEN "emptyHeaders"
    ELSE IF repeatedNames(hdr) # {} THEN "duplicateHeaders"
    ELSE "none"

oneHeaderCondition(r, hdr) ==
    /\ Cardinality(headerErrors(r)) <= 1
    /\ kinds(r) \cap HeaderErrorKinds \subseteq {firstHeaderCondition(hdr)}
    /\ flag(r, "hasEmptyHeaders") => kinds(r) \cap HeaderErrorKinds = {"emptyHeaders"}

C7_OneHeaderCondition ==
    bothReturned
        => oneHeaderCondition(result, source.header)
           /\ oneHeaderCondition(textResult, source.header)

(* C8: in the streaming parser a non-blank data line whose field count     *)
(* differs from the header's, the unterminated last line included, aborts  *)
(* the parse with zero rows and one column-count error when fewer than 10  *)
(* rows were accepted before it, and is skipped without an error, later    *)
(* valid lines still being accepted, when at least 10 were.                *)
shortLines(src) == {j \in 1..Len(rowsOf(src)) : isShortRow(src, rowsOf(src)[j])}
\* the line is reached: the limit does not end the parse before it
reached(src, j) == validBefore(src, j) < rowLimit

fatalLines(src) ==
    {j \in shortLines(src) : reached(src, j) /\ validBefore(src, j) < FATAL_MISMATCH_ROWS}
skippedLines(src) ==
    {j \in shortLines(src) : reached(src, j) /\ validBefore(src, j) >= FATAL_MISMATCH_ROWS}

C8_MismatchPolicy ==
    (pc = "returned" /\ ~streamFailed /\ source.header = H_OK) =>
        /\ fatalLines(source) # {} =>
              result = [data |-> <<>>,
                        errors |-> <<columnCountError(Len(H_OK), Len(ROW_SHORT))>>]
        /\ (fatalLines(source) = {} /\ skippedLines(source) # {}) =>
              /\ result.errors = <<>>
              /\ result.data =
                    firstRecords(source,
                        IF Len(validRows(source)) < rowLimit THEN Len(validRows(source))
                        ELSE rowLimit)

(* C9: a result with an error has no rows and is not truncated; a read     *)
(* that fails, also after rows were accumulated, gives zero rows and the   *)
(* one streaming error, and the parser does not read again.                *)
errorsMeanNoRows(r) ==
    Len(r.errors) > 0 => r.data = <<>> /\ ~flag(r, "truncated")

C9_ErrorsMeanNoRows ==
    /\ isReturned(result) => errorsMeanNoRows(result)
    /\ isReturned(textResult) => errorsMeanNoRows(textResult)
    /\ (isReturned(result) /\ "streaming" \in kinds(result)) =>
          result = [data |-> <<>>, errors |-> <<streamingError>>] /\ pc = "returned"

C9_Witness ==
    /\ pc = "returned" /\ streamFailed /\ Len(data) >= 2 /\ result.data = <<>>
    /\ offset < Len(file)

(* C10: for a text with fewer data rows than the row limit the streaming   *)
(* parser, whatever the chunks, and the in-memory parser return the same   *)
(* rows, errors, hasEmptyHeaders and rowCount.                             *)
C10_SameResults ==
    (bothReturned /\ Len(rowsOf(source)) < rowLimit) =>
        /\ result.data = textResult.data
        /\ result.errors = textResult.errors
        /\ flag(result, "hasEmptyHeaders") = flag(textResult, "hasEmptyHeaders")
        /\ rowCountOf(result) = rowCountOf(textResult)

-----------------------------------------------------------------------------
(* Header repair: what the file was written from                            *)

\* the fields of the header line of the file
originalHeader == parseCsvRow(join(rpSource.header, <<COMMA>>))
\* the lines of the repaired text
repairedLines == splitLines(fixedCsvText)
repairedHeader == parseCsvRow(repairedLines[1])

(* C11: the header line of the repaired text has as many fields as the      *)
(* original header, field i is the original field unless that trims to     *)
(* empty, when it is Column_i, and the lines after the header line are the  *)
(* lines of the input, in the same order.                                   *)
C11_OnlyEmptyHeadersChange ==
    rpPc = "fixed" =>
        /\ Len(repairedHeader) = Len(originalHeader)
        /\ \A i \in 1..Len(originalHeader) :
              repairedHeader[i] = IF trim(originalHeader[i]) = <<>> THEN placeholder(i)
                                  ELSE originalHeader[i]
        /\ Tail(repairedLines) = rpSource.lines

\* the header conditions of the repaired text
hasEmptyOriginal == \E i \in 1..Len(originalHeader) : trim(originalHeader[i]) = <<>>
distinctNonEmpty ==
    \A i, j \in 1..Len(originalHeader) :
        (i # j /\ trim(originalHeader[i]) # <<>> /\ trim(originalHeader[j]) # <<>>)
            => trim(originalHeader[i]) # trim(originalHeader[j])

(* C12: when the text has a data line and a header of at least 4 columns,   *)
(* one of them empty, the others pairwise distinct, the repaired text       *)
(* parses with hasEmptyHeaders false and without a header error.            *)
C12_RepairRecovers ==
    (/\ rpPc = "fixed" /\ rpSource.lines # <<>>
     /\ Len(originalHeader) >= MIN_COLUMNS /\ hasEmptyOriginal /\ distinctNonEmpty)
        => /\ ~flag(repaired, "hasEmptyHeaders")
           /\ kinds(repaired) \cap HeaderErrorKinds = {}

\* the place of the first raw record equal to t
firstIndexOf(t) == CHOOSE i \in 1..Len(transactions) :
                       transactions[i] = t /\ \A j \in 1..(i - 1) : transactions[j] # t

(* C13: every transaction cleanData returns derives from a raw record, and  *)
(* the transactions keep the order of their raw records; with               *)
(* removeDuplicateTransactions on, only the first of equal raw records      *)
(* contributes, so no two returned transactions derive from equal records.  *)
C13_FirstOccurrenceInOrder ==
    clPc = "cleaned" =>
        /\ \A i \in 1..Len(cleaned) : cleaned[i] = canonical(cleaned[i].raw, mapping)
        /\ \E f \in [1..Len(cleaned) -> 1..Len(transactions)] :
              /\ \A i \in 1..Len(cleaned) : transactions[f[i]] = cleaned[i].raw
              /\ \A i, j \in 1..Len(cleaned) : i < j => f[i] < f[j]
              /\ options.removeDuplicateTransactions =>
                    \A i \in 1..Len(cleaned) : f[i] = firstIndexOf(cleaned[i].raw)
        /\ options.removeDuplicateTransactions =>
              \A i, j \in 1..Len(cleaned) : i # j => cleaned[i].raw # cleaned[j].raw

\* the record that comes back after another one is the one that is dropped
C13_Witness ==
    /\ clPc = "cleaned" /\ options.removeDuplicateTransactions
    /\ Len(transactions) = 3
    /\ transactions[1] = R_PLAIN /\ transactions[2] = R_MINUS /\ transactions[3] = R_PLAIN
    /\ Len(cleaned) = 2 /\ cleaned[1].raw = R_PLAIN /\ cleaned[2].raw = R_MINUS

-----------------------------------------------------------------------------
\* the first k in 1..4 with v <= S[floor(n*k/5)], S counted from 0; 5 without one
firstBound(v, S) ==
    LET n == Len(S)
        reaches == {k \in 1..4 : v <= S[((n * k) \div 5) + 1]}
    IN  IF reaches = {} THEN 5 ELSE CHOOSE k \in reaches : \A m \in reaches : k <= m

(* C15: getQuintile(v, S) is the first k in 1..4 such that                  *)
(* v <= S[floor(n*k/5)], and 5 when there is none; in 1..10 the value 10    *)
(* has rank 5 and the value 9 has rank 4.                                   *)
C15_QuintileRank ==
    qtPc = "ranked" =>
        /\ rank = firstBound(qValue, sortedArr)
        /\ (sortedArr = OneToTen /\ qValue = 10) => rank = 5
        /\ (sortedArr = OneToTen /\ qValue = 9) => rank = 4

C15_Witness ==
    qtPc = "ranked" /\ sortedArr = OneToTen /\ qValue = 10 /\ rank = 5

isDistinct(arr) == \A i, j \in 1..Len(arr) : i # j => arr[i] # arr[j]

(* C17: in a population of n pairwise distinct values, n a positive         *)
(* multiple of 5, each of the ranks 1..5 is given to exactly n/5 values.    *)
C17_EqualBuckets ==
    (qtPc = "rankedAll" /\ isDistinct(sortedArr) /\ Len(sortedArr) % 5 = 0) =>
        \A k \in 1..5 :
            Cardinality({i \in 1..Len(sortedArr) : ranks[i] = k}) = Len(sortedArr) \div 5

-----------------------------------------------------------------------------
(* RFM: what the records are computed from                                  *)

customersOf(ts) == {ts[i].CustomerID : i \in 1..Len(ts)}
\* the transactions of one customer, in the order of the list
transactionsOf(ts, id) == SelectSeq(ts, LAMBDA t : t.CustomerID = id)

RECURSIVE sumOfTotalPrice(_)
sumOfTotalPrice(ts) ==
    IF ts = <<>> THEN 0
    ELSE plus(sumOfTotalPrice(SubSeq(ts, 1, Len(ts) - 1)), ts[Len(ts)].TotalPrice)

latestInvoice(ts) == CHOOSE d \in {ts[i].InvoiceDate : i \in 1..Len(ts)} :
                         \A i \in 1..Len(ts) : ts[i].InvoiceDate <= d
\* round(days between the transaction and SnapshotDate)
daysBefore(ts, t) == roundDays((latestInvoice(ts) + localDay) - t.InvoiceDate)
leastDaysBefore(ts, id) ==
    CHOOSE n \in {daysBefore(ts, t) : t \in {ts[i] : i \in 1..Len(ts)}} :
        /\ \E i \in 1..Len(ts) : ts[i].CustomerID = id /\ daysBefore(ts, ts[i]) = n
        /\ \A i \in 1..Len(ts) : ts[i].CustomerID = id => n <= daysBefore(ts, ts[i])

recordsOf(rfm, id) == {i \in 1..Len(rfm) : rfm[i].CustomerID = id}

rfmOf(ts, rfm) ==
    /\ \A i \in 1..Len(rfm) : rfm[i].CustomerID \in customersOf(ts)
    /\ \A id \in customersOf(ts) :
          /\ Cardinality(recordsOf(rfm, id)) = 1
          /\ \A i \in recordsOf(rfm, id) :
                /\ rfm[i].Frequency = Len(transactionsOf(ts, id))
                /\ rfm[i].Frequency >= 1
                /\ rfm[i].Monetary = sumOfTotalPrice(transactionsOf(ts, id))
                /\ rfm[i].Recency = leastDaysBefore(ts, id)
                /\ rfm[i].Recency >= 0
    /\ \A i, j \in 1..Len(rfm) :
          (\E t \in {ts[k] : k \in 1..Len(ts)} :
               t.CustomerID = rfm[i].CustomerID /\ t.InvoiceDate = latestInvoice(ts))
              => rfm[i].Recency <= rfm[j].Recency

(* C14: calculateRFM returns exactly one record per distinct CustomerID;    *)
(* its Frequency is the number of the customer's transactions, its Monetary *)
(* the sum of their TotalPrice, its Recency the least round(days between a  *)
(* transaction and SnapshotDate), SnapshotDate being the latest InvoiceDate *)
(* plus one day; Recency is at least 0 and least for the customer with the  *)
(* latest transaction.                                                      *)
C14_OneRecordPerCustomer ==
    rfPc = "ran" => rfmOf(cleanedTransactions, rfmData)

\* the code table of the segments
SegmentTable ==
    { <<{"555", "554", "545"}, "Champions">>,
      <<{"544", "455", "454", "445"}, "Loyal Customers">>,
      <<{"535", "534", "435", "434"}, "Potential Loyalist">>,
      <<{"525", "524", "523"}, "Recent Customers">>,
      <<{"355", "354", "345"}, "Promising">>,
      <<{"255", "254", "245"}, "Customers Needing Attention">>,
      <<{"333", "332", "323"}, "About to Sleep">>,
      <<{"233", "232", "223"}, "At Risk">>,
      <<{"155", "154", "145"}, "Can't Lose Them">>,
      <<{"111", "112", "121"}, "Lost">> }
listedCodes == UNION {entry[1] : entry \in SegmentTable}
labelOf(code) ==
    IF code \in listedCodes THEN (CHOOSE entry \in SegmentTable : code \in entry[1])[2]
    ELSE "Others"

\* the rank of a value in the values one field has in the population
quintileRank(v, rfm, key) ==
    firstBound(v, sortNumbers([i \in 1..Len(rfm) |-> rfm[i][key]]))

scoresOf(rfm) ==
    \A i \in 1..Len(rfm) :
        LET r == rfm[i]
        IN  /\ r.R_Score = 6 - quintileRank(r.Recency, rfm, "Recency")
            /\ r.F_Score = quintileRank(r.Frequency, rfm, "Frequency")
            /\ r.M_Score = quintileRank(r.Monetary, rfm, "Monetary")
            /\ r.R_Score \in 1..5 /\ r.F_Score \in 1..5 /\ r.M_Score \in 1..5
            /\ Len(r.RFM_Score) = 3
            /\ r.RFM_Score = ToString(r.R_Score) \o ToString(r.F_Score) \o ToString(r.M_Score)
            /\ r.Segment = labelOf(r.RFM_Score)

(* C16: in every record calculateRFM returns, R_Score is 6 minus the        *)
(* quintile rank of Recency, F_Score and M_Score are the quintile ranks of  *)
(* Frequency and Monetary, each score is in 1..5, RFM_Score is the three    *)
(* digits in the order R, F, M, and Segment is the label of the code table  *)
(* (32 codes), or "Others" for a code that is not listed.                   *)
C16_ScoresAndSegment ==
    rfPc = "ran" => scoresOf(rfmData) /\ Cardinality(listedCodes) = 32

\* two customers, the older one buying more: its code 333 is listed
C16_Witness ==
    /\ rfPc = "ran" /\ Len(rfmData) = 2
    /\ \E i \in 1..2 : rfmData[i].RFM_Score = "333" /\ rfmData[i].Segment = "About to Sleep"
    /\ \E i \in 1..2 : rfmData[i].Segment = "Others"

\* the records as a set, whatever their order
recordSet(rfm) == {rfm[i] : i \in 1..Len(rfm)}

(* C18: for two orderings of the same transactions calculateRFM returns the *)
(* same set of records, and a second run on the same list returns the same  *)
(* result.                                                                  *)
C18_OrderIndependent ==
    rfPc = "reran" =>
        /\ recordSet(rfmAgain) = recordSet(rfmData)
        /\ reordered = cleanedTransactions => rfmAgain = rfmData

-----------------------------------------------------------------------------
(* CLTV: the formulas                                                       *)

repeatRate == Frac(Cardinality({i \in 1..Len(rfmInput) : rfmInput[i].Frequency > 1}),
                   Len(rfmInput))
effectiveChurn ==
    IF churnRateOverride # NoOverride THEN churnRateOverride
    ELSE subtract(Whole(1), repeatRate)
churnPlusDiscount == add(effectiveChurn, discountRate)

\* the customer formula
formula(avgOrderValue, frequency) ==
    IF lessOrEqual(churnPlusDiscount, Whole(0))
    THEN multiply(multiply(multiply(avgOrderValue, frequency), profitMargin), Whole(100))
    ELSE multiply(divide(multiply(avgOrderValue, frequency), churnPlusDiscount), profitMargin)

(* C19: with effectiveChurn the override whenever it is not null (0         *)
(* included) and else 1 - (customers with Frequency > 1)/(customers), every *)
(* customer has AvgOrderValue = Monetary/Frequency (0 when Frequency is 0)  *)
(* and CLTV = AvgOrderValue x Frequency x profitMargin x 100 when           *)
(* effectiveChurn + discountRate <= 0, and (AvgOrderValue x Frequency /     *)
(* (effectiveChurn + discountRate)) x profitMargin otherwise;               *)
(* customerDetails has one entry per RFM record, in input order, with the   *)
(* record's Segment.                                                        *)
C19_CustomerCLTV ==
    cvPc = "computed" =>
        LET details == cltvResults.customerDetails
        IN  /\ Len(details) = Len(rfmInput)
            /\ \A i \in 1..Len(rfmInput) :
                  LET r == rfmInput[i]
                      aov == IF r.Frequency = 0 THEN Whole(0) ELSE Frac(r.Monetary, r.Frequency)
                  IN  /\ details[i].CustomerID = r.CustomerID
                      /\ details[i].Segment = r.Segment
                      /\ details[i].AvgOrderValue = aov
                      /\ details[i].CLTV = formula(aov, Whole(r.Frequency))

\* an override of 0 with a discount rate of 0, where no customer buys again
C19_Witness ==
    /\ cvPc = "computed" /\ churnRateOverride = Whole(0) /\ discountRate = Whole(0)
    /\ profitMargin = Frac(25, 100)
    /\ Len(rfmInput) = 1 /\ rfmInput[1].Frequency = 1
    /\ cltvResults.customerDetails[1].CLTV = Whole(100)

segmentsOf(rfm) == {rfm[i].Segment : i \in 1..Len(rfm)}
membersOf(rfm, seg) == SelectSeq(rfm, LAMBDA r : r.Segment = seg)

RECURSIVE sumOfMonetary(_)
sumOfMonetary(rs) ==
    IF rs = <<>> THEN 0
    ELSE plus(sumOfMonetary(SubSeq(rs, 1, Len(rs) - 1)), rs[Len(rs)].Monetary)

RECURSIVE sumOfFrequency(_)
sumOfFrequency(rs) == IF rs = <<>> THEN 0 ELSE Head(rs).Frequency + sumOfFrequency(Tail(rs))

RECURSIVE sumOfCounts(_)
sumOfCounts(ss) == IF ss = <<>> THEN 0 ELSE Head(ss).CustomerCount + sumOfCounts(Tail(ss))

(* C20: calculateCLTV returns one summary per Segment of the RFM input; its *)
(* CustomerCount is the number of records of the Segment, its AvgCLTV the   *)
(* customer formula for avgOrderValue = (sum of Monetary)/(sum of           *)
(* Frequency) and purchaseFrequency = (sum of Frequency)/CustomerCount, and *)
(* the summaries are in the order of non-increasing AvgCLTV.                *)
C20_SegmentCLTV ==
    cvPc = "computed" =>
        LET summaries == cltvResults.segmentData
        IN  /\ Len(summaries) = Cardinality(segmentsOf(rfmInput))
            /\ {summaries[i].Segment : i \in 1..Len(summaries)} = segmentsOf(rfmInput)
            /\ sumOfCounts(summaries) = Len(rfmInput)
            /\ \A i \in 1..Len(summaries) :
                  LET members == membersOf(rfmInput, summaries[i].Segment)
                      sumF == sumOfFrequency(members)
                      aov == IF sumF = 0 THEN Whole(0) ELSE Frac(sumOfMonetary(members), sumF)
                  IN  /\ summaries[i].CustomerCount = Len(members)
                      /\ summaries[i].AvgCLTV = formula(aov, Frac(sumF, Len(members)))
            /\ \A i \in 1..(Len(summaries) - 1) :
                  lessOrEqual(summaries[i + 1].AvgCLTV, summaries[i].AvgCLTV)

\* the segment of the second customer is worth more and comes first
C20_Witness ==
    /\ cvPc = "computed" /\ Len(rfmInput) = 2 /\ Len(cltvResults.segmentData) = 2
    /\ cltvResults.segmentData[1].Segment = rfmInput[2].Segment
    /\ cltvResults.segmentData[1].AvgCLTV # cltvResults.segmentData[2].AvgCLTV

-----------------------------------------------------------------------------
(* Market baskets: the definition                                           *)

invoicesOf(ts) == {ts[i].InvoiceID : i \in 1..Len(ts)}
basketOf(ts, invoice) == {ts[i].Description : i \in {k \in 1..Len(ts) : ts[k].InvoiceID = invoice}}
itemsOf(ts) == {ts[i].Description : i \in 1..Len(ts)}
\* baskets containing every item of the set / total baskets
supportOf(ts, itemset) ==
    Frac(Cardinality({invoice \in invoicesOf(ts) : itemset \subseteq basketOf(ts, invoice)}),
         Cardinality(invoicesOf(ts)))

frequentByDefinition(ts, supportMin) ==
    { [item |-> x, support |-> supportOf(ts, {x})] :
        x \in {y \in itemsOf(ts) : lessOrEqual(supportMin, supportOf(ts, {y}))} }

ruleByDefinition(ts, a, b) ==
    LET confidence == divide(supportOf(ts, {a, b}), supportOf(ts, {a}))
    IN  Rule(a, b, supportOf(ts, {a, b}), confidence, divide(confidence, supportOf(ts, {b})))

rulesByDefinition(ts, supportMin, confidenceMin, liftMin) ==
    LET frequent == {e.item : e \in frequentByDefinition(ts, supportMin)}
        candidates == {ruleByDefinition(ts, ab[1], ab[2]) :
                          ab \in {p \in frequent \X frequent : p[1] # p[2]}}
    IN  { r \in candidates : /\ lessOrEqual(supportMin, r.support)
                             /\ lessOrEqual(confidenceMin, r.confidence)
                             /\ lessOrEqual(liftMin, r.lift) }

elementsOf(list) == {list[i] : i \in 1..Len(list)}

(* C21: calculateMBA returns as frequentItems exactly the items whose       *)
(* support (baskets containing the item / total baskets, a basket being the *)
(* set of distinct Descriptions of an InvoiceID) is >= minSupport, in the   *)
(* order of non-increasing support, and as rules exactly the rules A->B     *)
(* over pairs of frequent items with pair support >= minSupport,            *)
(* confidence = pairSupport/support(A) >= minConfidence and lift =          *)
(* confidence/support(B) >= minLift, in the order of non-increasing lift;   *)
(* two invoices {Bread, Milk} with thresholds 0.5, 0.5, 1 give both items   *)
(* with support 1 and Bread->Milk with support, confidence and lift 1.      *)
C21_MatchesDefinition ==
    mbPc # "start" =>
        /\ ~mbaResults.threw
        /\ LET items == mbaResults.frequentItems
               rules == mbaResults.rules
           IN  /\ elementsOf(items) = frequentByDefinition(mbaTransactions, minSupport)
               /\ Len(items) = Cardinality(elementsOf(items))
               /\ \A i \in 1..(Len(items) - 1) :
                     lessOrEqual(items[i + 1].support, items[i].support)
               /\ elementsOf(rules) =
                     rulesByDefinition(mbaTransactions, minSupport, minConfidence, minLift)
               /\ Len(rules) = Cardinality(elementsOf(rules))
               /\ \A i \in 1..(Len(rules) - 1) : lessOrEqual(rules[i + 1].lift, rules[i].lift)
        /\ (mbaTransactions = BreadAndMilk /\ minSupport = Frac(1, 2)
                /\ minConfidence = Frac(1, 2) /\ minLift = Whole(1))
           => /\ elementsOf(mbaResults.frequentItems) =
                    {[item |-> BREAD, support |-> Whole(1)], [item |-> MILK, support |-> Whole(1)]}
              /\ Rule(BREAD, MILK, Whole(1), Whole(1), Whole(1)) \in elementsOf(mbaResults.rules)

(* C22: for fixed transactions, minConfidence and minLift and s1 <= s2, the *)
(* frequent items returned with minSupport = s2 are among those returned    *)
(* with s1, and so are the rules: neither count grows when minSupport is    *)
(* raised.                                                                  *)
C22_MonotoneInMinSupport ==
    (mbPc = "raised" /\ ~mbaResults.threw /\ ~mbaRaised.threw) =>
        /\ elementsOf(mbaRaised.frequentItems) \subseteq elementsOf(mbaResults.frequentItems)
        /\ elementsOf(mbaRaised.rules) \subseteq elementsOf(mbaResults.rules)
        /\ Len(mbaRaised.frequentItems) <= Len(mbaResults.frequentItems)
        /\ Len(mbaRaised.rules) <= Len(mbaResults.rules)

(* C27: whatever the item labels, '|' included, every rule calculateMBA     *)
(* returns has an antecedent different from its consequent, both among the  *)
(* returned frequentItems, and a support that is (baskets containing both   *)
(* items)/(baskets) and >= minSupport.                                      *)
C27_RulesWellFormed ==
    mbPc # "start" =>
        \A i \in 1..Len(mbaResults.rules) :
            LET r == mbaResults.rules[i]
                frequent == {e.item : e \in elementsOf(mbaResults.frequentItems)}
            IN  /\ r.antecedent # r.consequent
                /\ r.antecedent \in frequent /\ r.consequent \in frequent
                /\ r.support = supportOf(mbaTransactions, {r.antecedent, r.consequent})
                /\ lessOrEqual(minSupport, r.support)

(* C23: parseCsvRow raises no exception and terminates on every string,    *)
(* unterminated quoted fields, characters after a closing quote and lines   *)
(* of only whitespace or only commas included: every iteration of the outer *)
(* loop advances the position, and the call returns a list of strings.      *)
C23_ScanTerminates ==
    /\ [][scPc' = "scanning" => scPosition' > scPosition]_vars
    /\ [](scPc = "returned" =>
             \A i \in 1..Len(scanned) : \A k \in 1..Len(scanned[i]) : scanned[i][k] \in RowChars)
    /\ <>(scPc = "returned")

\* an unterminated quoted field: the rest of the line is its value
C23_Witness ==
    /\ scanRow = <<QUOTE, "a", COMMA, "a">>
    /\ scPc = "returned"
    /\ scanned = <<<<"a", COMMA, "a">>>>

-----------------------------------------------------------------------------
(* Streaming: the chunks                                                    *)

\* what the streaming parser returns when the whole text arrives as one chunk
inOneChunk(text, limit) ==
    LET lines == splitLines(text)
        st == processLines(ParserStart, SubSeq(lines, 1, Len(lines) - 1), limit)
    IN  IF st.returned THEN st.ret ELSE endOfStream(st, lines[Len(lines)], limit).ret

(* C24: for a fixed text and row limit parseAndValidateCSV returns the same *)
(* rows, errors, truncated, hasEmptyHeaders and rowCount however the text   *)
(* is divided into chunks: inside a field, inside a quoted field, between   *)
(* the \r and the \n of a line ending, before or after a line ending.       *)
C24_ChunkIndependent ==
    (pc = "returned" /\ ~streamFailed) =>
        LET whole == inOneChunk(file, rowLimit)
        IN  /\ result.data = whole.data
            /\ result.errors = whole.errors
            /\ flag(result, "truncated") = flag(whole, "truncated")
            /\ flag(result, "hasEmptyHeaders") = flag(whole, "hasEmptyHeaders")
            /\ rowCountOf(result) = rowCountOf(whole)

\* a row was read in two chunks that met inside its quoted field, and the last
\* chunk so far ended between the \r and the \n that follow the row
C24_Witness ==
    /\ pc = "reading" /\ offset > 0 /\ offset < Len(file)
    /\ file[offset] = CR /\ file[offset + 1] = LF
    /\ Len(data) >= 1
    /\ data[Len(data)] = toRecord(H_OK, <<Cell("1"), <<"2", COMMA, "3">>, Cell("3"), Cell("4")>>)

-----------------------------------------------------------------------------
(* UploadStep: what the screen shows                                        *)

\* errors, success and stored rows once a file was parsed and nothing else happened
parseOutcome(f) ==
    LET r == parseAndValidateCSV(UploadFiles[f], ROW_LIMIT)
        errors == IF Len(r.errors) > 0 THEN r.errors
                  ELSE IF Len(r.data) = 0 THEN <<uploadEmptyError>> ELSE <<>>
    IN  [errors |-> errors, success |-> errors = <<>>,
         rows |-> IF errors = <<>> THEN r.data ELSE <<>>]

\* the same once its headers were repaired
repairOutcome(f) ==
    LET r == parseAndValidateCSVFromText(fixEmptyHeadersInCsvText(UploadFiles[f]))
    IN  [errors |-> r.errors, success |-> r.errors = <<>>,
         rows |-> IF r.errors = <<>> THEN r.data ELSE <<>>]

shown == [errors |-> upload.errors, success |-> upload.uploadSuccess, rows |-> rawTransactions]

(* C29: for any interleaving of file selections and completions of their    *)
(* parses, once no parse is pending the stored raw transactions, the        *)
(* success/error state and the displayed file name all belong to the most   *)
(* recently selected file: a parse of an earlier file that finishes later   *)
(* never overwrites the state of a later file.                              *)
C29_LatestFileWins ==
    (pending = <<>> /\ selected # 0) =>
        /\ upload.fileName.name = selected
        /\ shown = IF upload.fileName.fixed THEN repairOutcome(selected)
                   ELSE parseOutcome(selected)

hasEmptyHeaders(f) == orFalse(parseAndValidateCSV(UploadFiles[f], ROW_LIMIT), "hasEmptyHeaders")
\* the step takes the i-th await out of the pending ones
resolves(i) == i \in 1..Len(pending) /\ pending' = without(pending, i)
\* the step starts a repair
repairStarts ==
    Len(pending') = Len(pending) + 1 /\ pending'[Len(pending')].task = "fix"

(* C25: in any sequence of upload-step events, Header Repair runs only on a *)
(* file whose streaming parse returned hasEmptyHeaders = true; the repair   *)
(* is followed in the same handler by the in-memory parse of the repaired   *)
(* text, never the streaming one; and once a repair has started the repair  *)
(* action is unavailable until an upload reports empty headers again.       *)
C25_RepairOnlyAfterEmptyHeaders ==
    /\ [][repairStarts =>
             /\ hasEmptyHeaders(pending'[Len(pending')].file)
             /\ upload'.originalFile = 0
             /\ ~upload'.hasEmptyHeaderError
             /\ ~fixButtonShown(upload')]_vars
    /\ [][\A i \in 1..Len(pending) :
             (pending[i].task = "fix" /\ resolves(i)) =>
                 LET r == parseAndValidateCSVFromText(
                              fixEmptyHeadersInCsvText(UploadFiles[pending[i].file]))
                 IN  /\ upload'.errors = r.errors
                     /\ upload'.uploadSuccess = (r.errors = <<>>)
                     /\ r.errors = <<>> =>
                           /\ rawTransactions' = r.data
                           /\ upload'.rowCount = Len(r.data)]_vars
    /\ [][(\/ upload'.originalFile \notin {0, upload.originalFile}
           \/ upload'.hasEmptyHeaderError /\ ~upload.hasEmptyHeaderError) =>
             \E i \in 1..Len(pending) :
                 /\ pending[i].task = "parse" /\ resolves(i)
                 /\ hasEmptyHeaders(pending[i].file)
                 /\ upload'.originalFile = pending[i].file]_vars

\* a repair has run and succeeded: the button is gone
C25_Witness ==
    /\ pending = <<>> /\ upload.fileName = [name |-> 3, fixed |-> TRUE]
    /\ upload.uploadSuccess /\ rawTransactions # <<>>
    /\ upload.originalFile = 0 /\ ~fixButtonShown(upload)

\* what the click on the process button is about to clean
toClean == cleanData(wizardRaw, cleaningStep.localMapping, cleaningStep.cleaningOptions)
\* what the callback next in line is about to compute
toRun ==
    calculateMBA(Head(runs).transactions, Head(runs).minSupport, Head(runs).minConfidence,
                 Head(runs).minLift)

(* C26: zero results are not failures and leave what is stored consistent.  *)
(* When cleanData returns no transaction, the cleaning step shows its       *)
(* zero-result message, which is not the message of a thrown error, sets no *)
(* timer for a step advance, and leaves the stored cleaned transactions and *)
(* column mapping as they were. When calculateMBA returns no rule, the MBA  *)
(* step shows its no-rules message, still stores the result with its        *)
(* frequent items, in the step and in the App, and clears the loading flag. *)
C26_ZeroResultsNonFatal ==
    /\ [][(/\ wzPc' = "handleProcessAndNext"
           /\ missingMappings(cleaningStep.localMapping) = <<>>
           /\ toClean = <<>>) =>
             /\ cleaningStep'.error = Notice(ZERO_RESULT_MESSAGE)
             /\ cleaningStep'.error # Notice(CLEANING_FAILED_MESSAGE)
             /\ advances' = advances
             /\ currentStep' = currentStep
             /\ wizardCleaned' = wizardCleaned
             /\ columnMapping' = columnMapping]_vars
    /\ [][(/\ wzPc' = "analysis" /\ runs # <<>> /\ Head(runs).mounted
           /\ ~toRun.threw /\ toRun.rules = <<>>) =>
             /\ mbaStep'.error = Notice(NO_RULES_MESSAGE)
             /\ mbaStep'.error # Notice(MBA_FAILED_MESSAGE)
             /\ mbaStep'.results = Results(toRun)
             /\ mbaData' = Results(toRun)
             /\ ~mbaStep'.isLoading]_vars

\* an analysis without rules is stored with its frequent item, and a later clean of
\* another upload has no result: what was cleaned and mapped before is still stored
C26_Witness ==
    /\ wzPc = "handleProcessAndNext"
    /\ cleaningStep.error = Notice(ZERO_RESULT_MESSAGE) /\ cleaningStep.cleanedCount = 0
    /\ wizardRaw = <<W_RETURN>>
    /\ Len(wizardCleaned) = 1 /\ columnMapping = Identity
    /\ mbaData.present /\ mbaData.rules = <<>> /\ Len(mbaData.frequentItems) = 1

(* C30: a successful clean advances the wizard by exactly one step. For any *)
(* sequence of clicks on the process button and on Back, clicks made before *)
(* the timer fires included, each delayed advance moves the wizard from     *)
(* step 2 to step 3 only; the wizard never goes from step 2 past step 3;    *)
(* and currentStep stays within 1..7.                                       *)
C30_AdvancesByOneStep ==
    /\ [][advances' = advances - 1 => (currentStep = 2 /\ currentStep' = 3)]_vars
    /\ [][currentStep = 2 => currentStep' \in {1, 2, 3}]_vars
    /\ [](currentStep \in 1..totalSteps)

\* the customerDetails entries of a segment, and the sum of their CLTV
detailsOf(details, seg) == SelectSeq(details, LAMBDA d : d.Segment = seg)
RECURSIVE sumOfCLTV(_)
sumOfCLTV(ds) == IF ds = <<>> THEN Whole(0) ELSE add(Head(ds).CLTV, sumOfCLTV(Tail(ds)))
RECURSIVE exactMonetary(_)
exactMonetary(rs) == IF rs = <<>> THEN 0 ELSE Head(rs).Monetary + exactMonetary(Tail(rs))
\* the additions of the segment's Monetary values lose nothing to rounding
summedExactly(seg) ==
    sumOfMonetary(membersOf(rfmInput, seg)) = exactMonetary(membersOf(rfmInput, seg))

(* C28: in exact arithmetic, for every segment summary returned by          *)
(* calculateCLTV, whatever profitMargin, discountRate and churn override    *)
(* are and on both branches of the denominator test, AvgCLTV is the         *)
(* arithmetic mean of the CLTV of the customerDetails entries that carry    *)
(* the summary's Segment.                                                   *)
C28_SegmentIsMeanOfCustomers ==
    cvPc = "computed" =>
        \A i \in 1..Len(cltvResults.segmentData) :
            LET summary == cltvResults.segmentData[i]
                members == detailsOf(cltvResults.customerDetails, summary.Segment)
            IN  summedExactly(summary.Segment) =>
                    /\ Len(members) > 0
                    /\ summary.AvgCLTV = divide(sumOfCLTV(members), Whole(Len(members)))

\* three customers of one segment with different values, on the branch of a denominator
\* that is not positive
C28_Witness ==
    /\ cvPc = "computed"
    /\ Len(rfmInput) = 3
    /\ \A i \in 1..3 : rfmInput[i].Segment = "Champions"
    /\ <<rfmInput[1].Monetary, rfmInput[2].Monetary, rfmInput[3].Monetary>> = <<5, 5, 4>>
    /\ summedExactly("Champions")
    /\ ~isPositive(churnPlusDiscount) /\ profitMargin = Frac(25, 100)
    /\ cltvResults.customerDetails[1].CLTV # cltvResults.customerDetails[3].CLTV
    /\ cltvResults.segmentData[1].CustomerCount = 3

====
